---- MODULE Spec2Model ----
(***************************************************************************)
(* A model of smartcloud-ai's content-intelligence core: the provider      *)
(* fallback orchestrator (app/ai/enhanced_processor.py) over its three     *)
(* providers (app/ai/openai_client.py, app/ai/simple_ai_client.py,         *)
(* app/ai/tagging.py).                                                     *)
(*                                                                         *)
(* A Python str is a sequence of one-character strings.  A str a result    *)
(* carries is a record [lit, chars]: a fixed literal of the source         *)
(* followed by characters taken from the document or a remote response.    *)
(***************************************************************************)
EXTENDS Integers, Sequences, FiniteSets, TLC

(***************************************************************************)
(* Bounds of the model.                                                    *)
(***************************************************************************)
MaxDocLen == 2

DocChars == {" ", "h", "r"}

(***************************************************************************)
(* Python str operations, as the source uses them.                         *)
(***************************************************************************)
Whitespace == {" ", "\t", "\n", "\r"}

Upper == <<"A","B","C","D","E","F","G","H","I","J","K","L","M",
           "N","O","P","Q","R","S","T","U","V","W","X","Y","Z">>

Lowercase == <<"a","b","c","d","e","f","g","h","i","j","k","l","m",
               "n","o","p","q","r","s","t","u","v","w","x","y","z">>

LowerChar(c) ==
  IF \E i \in 1..Len(Upper) : Upper[i] = c
  THEN Lowercase[CHOOSE i \in 1..Len(Upper) : Upper[i] = c]
  ELSE c

\* str.lower()
Lower(s) == [i \in 1..Len(s) |-> LowerChar(s[i])]

SetMin(S) == CHOOSE x \in S : \A y \in S : x <= y

SetMax(S) == CHOOSE x \in S : \A y \in S : y <= x

\* mutant: lstrip(), the trailing whitespace is kept
Strip_leading(s) ==
  LET keep == {i \in 1..Len(s) : s[i] \notin Whitespace}
  IN IF keep = {} THEN <<>> ELSE SubSeq(s, SetMin(keep), Len(s))

\* str.strip()
Strip(s) ==
  LET keep == {i \in 1..Len(s) : s[i] \notin Whitespace}
  IN IF keep = {} THEN <<>> ELSE SubSeq(s, SetMin(keep), SetMax(keep))

\* `kw in s`
Contains(s, kw) ==
  \E i \in 1..(Len(s) - Len(kw) + 1) : SubSeq(s, i, i + Len(kw) - 1) = kw

\* any(word in s for word in words), words a sequence of keywords
ContainsAny(s, words) == \E j \in 1..Len(words) : Contains(s, words[j])

\* s.split(sep), sep non-empty
RECURSIVE SplitOn(_, _)
SplitOn(s, sep) ==
  LET hits == {i \in 1..(Len(s) - Len(sep) + 1) : SubSeq(s, i, i + Len(sep) - 1) = sep}
  IN IF hits = {} THEN <<s>>
     ELSE LET i == SetMin(hits)
          IN <<SubSeq(s, 1, i - 1)>> \o SplitOn(SubSeq(s, i + Len(sep), Len(s)), sep)

\* sep.join(parts)
RECURSIVE Join(_, _)
Join(parts, sep) ==
  IF Len(parts) = 0 THEN <<>>
  ELSE IF Len(parts) = 1 THEN parts[1]
  ELSE parts[1] \o sep \o Join(Tail(parts), sep)

\* s.split(): the maximal runs of non-whitespace characters
RECURSIVE Words(_)
Words(s) ==
  LET t == Strip(s)
      ws == {i \in 1..Len(t) : t[i] \in Whitespace}
  IN IF t = <<>> THEN <<>>
     ELSE IF ws = {} THEN <<t>>
     ELSE <<SubSeq(t, 1, SetMin(ws) - 1)>> \o Words(SubSeq(t, SetMin(ws), Len(t)))

\* mutant: seq[-n:], the last n entries
Take_last(seq, n) ==
  SubSeq(seq, IF Len(seq) < n THEN 1 ELSE Len(seq) - n + 1, Len(seq))

\* seq[:n]
Take(seq, n) == SubSeq(seq, 1, IF Len(seq) < n THEN Len(seq) ELSE n)

\* a str of the source: the literal lit followed by the characters chars
Lit(s) == [lit |-> s, chars |-> <<>>]

Text(cs) == [lit |-> "", chars |-> cs]

EmptyStr == Lit("")

\* dict.get(k, default)
Get(d, k, default) == IF k \in DOMAIN d THEN d[k] ELSE default

(***************************************************************************)
(* What a remote service does with one HTTP request (requests.post): it    *)
(* answers 200 with a well-formed body, answers 200 with a body the client *)
(* cannot read, answers another status code, times out, or the connection  *)
(* fails.  RemoteTexts are the texts a well-formed body may carry.         *)
(***************************************************************************)
HttpOutcomes == {"ok", "bad_body", "status_error", "timeout", "network_error"}

RemoteTexts == {<<>>, <<"h", ",", " ", "h", ",", "h", ",", "h", ",", "h", ",", "h", ",">>}

(***************************************************************************)
(* An unexpected exception inside a try block of a provider: the case the  *)
(* `except Exception` handlers of the source exist for.  "none": the body  *)
(* runs as written.                                                        *)
(***************************************************************************)
OpenAIFaults == {"none", "client"}

SimpleAIFaults == {"none", "rule_based", "client"}

FallbackFaults == {"none", "tagger", "fallback"}

(***************************************************************************)
(* app/ai/openai_client.py                                                 *)
(***************************************************************************)
OpenAIClient_model == "gpt-3.5-turbo"

OpenAIClient_is_available(api_key) == api_key

\* mutant: a request that timed out is taken for an answer with no content
OpenAIClient_make_api_call_timeout_ok(http, content) ==
  IF http \in {"ok", "timeout"}
  THEN [status |-> "success", content |-> IF http = "ok" THEN content ELSE <<>>]
  ELSE [status |-> "error", message |-> "OpenAI API error"]

OpenAIClient_make_api_call(http, content) ==
  CASE http = "ok" -> [status |-> "success", content |-> content]
    [] http = "status_error" ->
         [status |-> "error", message |-> "OpenAI API error: <status_code> - <text>"]
    [] http = "timeout" ->
         [status |-> "error",
          message |-> "Request timeout - OpenAI API took too long to respond"]
    [] http = "network_error" -> [status |-> "error", message |-> "Network error: <e>"]
    [] OTHER -> [status |-> "error", message |-> "Unexpected error: <e>"]

OpenAIClient_generate_summary(api_key, http, content, fault) ==
  IF ~OpenAIClient_is_available(api_key)
  THEN [status |-> "error", message |-> "OpenAI API not configured",
        summary |-> Lit("AI service not available for summarization.")]
  ELSE IF fault = "client"
  THEN [status |-> "error", message |-> "OpenAI API error: <e>",
        summary |-> Lit("Unable to generate summary due to AI service error.")]
  ELSE LET response == OpenAIClient_make_api_call(http, content)
       IN IF response.status = "success"
          THEN [status |-> "success", summary |-> Text(response.content),
                model |-> OpenAIClient_model]
          ELSE [status |-> "error", message |-> Get(response, "message", "Unknown error"),
                summary |-> Lit("Unable to generate summary due to AI service error.")]

\* [tag.strip() for tag in tags_text.split(",") if tag.strip()]
ParseTags(content) ==
  LET parts == SplitOn(Strip(content), <<",">>)
      kept == SelectSeq(parts, LAMBDA t : Strip(t) # <<>>)
  IN [i \in 1..Len(kept) |-> Text(Strip(kept[i]))]

OpenAIClient_generate_tags(api_key, http, content, fault) ==
  IF ~OpenAIClient_is_available(api_key)
  THEN [status |-> "error", message |-> "OpenAI API not configured", tags |-> <<>>]
  ELSE IF fault = "client"
  THEN [status |-> "error", message |-> "OpenAI API error: <e>", tags |-> <<>>]
  ELSE LET response == OpenAIClient_make_api_call(http, content)
       IN IF response.status = "success"
          THEN [status |-> "success", tags |-> ParseTags(response.content),
                model |-> OpenAIClient_model]
          ELSE [status |-> "error", message |-> Get(response, "message", "Unknown error"),
                tags |-> <<>>]

OpenAIClient_query_file_content(api_key, http, content, fault) ==
  IF ~OpenAIClient_is_available(api_key)
  THEN [status |-> "error", message |-> "OpenAI API not configured",
        answer |-> Lit("AI service not available. Please configure OpenAI API key.")]
  ELSE IF fault = "client"
  THEN [status |-> "error", message |-> "OpenAI API error: <e>",
        answer |-> Lit("Sorry, I encountered an error while processing your question.")]
  ELSE LET response == OpenAIClient_make_api_call(http, content)
       IN IF response.status = "success"
          THEN [status |-> "success", answer |-> Text(response.content),
                model |-> OpenAIClient_model]
          ELSE [status |-> "error", message |-> Get(response, "message", "Unknown error"),
                answer |-> Lit("Sorry, I encountered an error while processing your question.")]

(***************************************************************************)
(* app/ai/simple_ai_client.py                                              *)
(***************************************************************************)
SimpleSummaryCap == 200

SimpleSummarySentences == 3

SimpleMaxCategories == 5

SimpleAIClient_is_available(api_key) == api_key

simple_category_keywords ==
  <<
    [category |-> "Technology", keywords |-> <<
        <<"s","o","f","t","w","a","r","e">>, <<"s","y","s","t","e","m">>,
        <<"d","e","v","e","l","o","p","m","e","n","t">>,
        <<"t","e","c","h","n","i","c","a","l">>, <<"c","o","d","e">>,
        <<"p","r","o","g","r","a","m","m","i","n","g">>, <<"a","p","i">>,
        <<"d","a","t","a","b","a","s","e">>
      >>],
    [category |-> "Business", keywords |-> <<
        <<"p","r","o","j","e","c","t">>, <<"c","o","m","p","a","n","y">>,
        <<"b","u","s","i","n","e","s","s">>, <<"m","a","n","a","g","e","m","e","n","t">>,
        <<"s","t","r","a","t","e","g","y">>,
        <<"o","r","g","a","n","i","z","a","t","i","o","n">>, <<"t","e","a","m">>
      >>],
    [category |-> "Finance", keywords |-> <<
        <<"b","u","d","g","e","t">>, <<"c","o","s","t">>,
        <<"f","i","n","a","n","c","i","a","l">>, <<"m","o","n","e","y">>,
        <<"e","x","p","e","n","s","e">>, <<"r","e","v","e","n","u","e">>,
        <<"p","a","y","m","e","n","t">>, <<"i","n","v","o","i","c","e">>
      >>],
    [category |-> "Education", keywords |-> <<
        <<"l","e","a","r","n","i","n","g">>, <<"s","t","u","d","y">>,
        <<"c","o","u","r","s","e">>, <<"e","d","u","c","a","t","i","o","n">>,
        <<"t","r","a","i","n","i","n","g">>, <<"a","c","a","d","e","m","i","c">>,
        <<"s","c","h","o","o","l">>
      >>],
    [category |-> "Health", keywords |-> <<
        <<"m","e","d","i","c","a","l">>, <<"h","e","a","l","t","h">>,
        <<"d","o","c","t","o","r">>, <<"p","a","t","i","e","n","t">>,
        <<"t","r","e","a","t","m","e","n","t">>, <<"m","e","d","i","c","i","n","e">>,
        <<"h","o","s","p","i","t","a","l">>
      >>],
    [category |-> "Legal", keywords |-> <<
        <<"l","e","g","a","l">>, <<"l","a","w">>, <<"c","o","n","t","r","a","c","t">>,
        <<"a","g","r","e","e","m","e","n","t">>, <<"l","e","g","a","l">>,
        <<"a","t","t","o","r","n","e","y">>, <<"c","o","u","r","t">>
      >>],
    [category |-> "Marketing", keywords |-> <<
        <<"m","a","r","k","e","t","i","n","g">>,
        <<"a","d","v","e","r","t","i","s","i","n","g">>, <<"c","a","m","p","a","i","g","n">>,
        <<"p","r","o","m","o","t","i","o","n">>, <<"b","r","a","n","d">>,
        <<"c","u","s","t","o","m","e","r">>
      >>],
    [category |-> "Research", keywords |-> <<
        <<"r","e","s","e","a","r","c","h">>, <<"s","t","u","d","y">>,
        <<"a","n","a","l","y","s","i","s">>, <<"d","a","t","a">>,
        <<"i","n","v","e","s","t","i","g","a","t","i","o","n">>, <<"s","u","r","v","e","y">>
      >>],
    [category |-> "Project Management", keywords |-> <<
        <<"p","r","o","j","e","c","t">>, <<"m","a","n","a","g","e","m","e","n","t">>,
        <<"p","l","a","n","n","i","n","g">>, <<"s","c","h","e","d","u","l","e">>,
        <<"m","i","l","e","s","t","o","n","e">>, <<"d","e","l","i","v","e","r","a","b","l","e">>
      >>],
    [category |-> "Documentation", keywords |-> <<
        <<"d","o","c","u","m","e","n","t">>, <<"r","e","p","o","r","t">>, <<"f","i","l","e">>,
        <<"r","e","c","o","r","d">>, <<"d","o","c","u","m","e","n","t","a","t","i","o","n">>,
        <<"m","a","n","u","a","l">>
      >>]
  >>

SimpleAIClient_categorize_content(content) ==
  LET content_lower == Lower(content)
      hit == SelectSeq(simple_category_keywords,
                       LAMBDA e : ContainsAny(content_lower, e.keywords))
      categories == [i \in 1..Len(hit) |-> Lit(hit[i].category)]
  IN Take(categories, SimpleMaxCategories)

SimpleAIClient_summarize_with_api(http, content) ==
  CASE http = "ok" ->
         [status |-> "success", summary |-> Text(content), model |-> "api-bart-summarizer"]
    [] http = "status_error" -> [status |-> "error", message |-> "API error: <status_code>"]
    [] OTHER -> [status |-> "error", message |-> "API call failed: <e>"]

SimpleAIClient_query_with_api(http, content) ==
  CASE http = "ok" ->
         [status |-> "success", answer |-> Text(content), confidence |-> "score",
          model |-> "api-roberta-qa"]
    [] http = "status_error" -> [status |-> "error", message |-> "API error: <status_code>"]
    [] OTHER -> [status |-> "error", message |-> "API call failed: <e>"]

SimpleAIClient_rule_based_summary(file_content, fault) ==
  IF fault = "rule_based"
  THEN [status |-> "error", message |-> "Rule-based summary failed: <e>",
        summary |-> Lit("Unable to generate summary.")]
  ELSE LET sentences == SplitOn(file_content, <<".", " ">>)
           summary ==
             IF Len(sentences) >= SimpleSummarySentences
             THEN Text(Join(Take(sentences, SimpleSummarySentences), <<".", " ">>) \o <<".">>)
             ELSE IF Len(file_content) > SimpleSummaryCap
             THEN Text(Take(file_content, SimpleSummaryCap) \o <<".", ".", ".">>)
             ELSE Text(file_content)
       IN [status |-> "success", summary |-> summary, model |-> "simple-rule-based"]

kw_summary == <<"s","u","m","m","a","r","y">>

kw_summarize == <<"s","u","m","m","a","r","i","z","e">>

kw_what == <<"w","h","a","t">>

kw_how == <<"h","o","w">>

SimpleAIClient_rule_based_query(file_content, user_prompt, fault) ==
  IF fault = "rule_based"
  THEN [status |-> "error", message |-> "Rule-based query failed: <e>",
        answer |-> Lit("Sorry, I cannot process your question at this time.")]
  ELSE LET prompt_lower == Lower(user_prompt)
           sentences == SplitOn(file_content, <<".", " ">>)
           answer ==
             IF Contains(prompt_lower, kw_summary) \/ Contains(prompt_lower, kw_summarize)
             THEN [lit |-> "Here's a summary: ",
                   chars |-> Join(Take(sentences, 3), <<".", " ">>) \o <<".">>]
             ELSE IF Contains(prompt_lower, kw_what)
             THEN [lit |-> "Based on the document: ",
                   chars |-> Join(Take(sentences, 2), <<" ">>)]
             ELSE IF Contains(prompt_lower, kw_how)
             THEN Lit("The document describes various processes and implementations. For specific details, please ask a more specific question about what aspect you're interested in.")
             ELSE Lit("I found information in the document that might be relevant to your question. Please ask a more specific question about the content.")
       IN [status |-> "success", answer |-> answer, model |-> "simple-rule-based"]

\* calledApi: whether the Hugging Face request is made (SimpleApiCalled below)
SimpleAIClient_generate_summary(api_key, http, content, fault, file_content) ==
  IF fault = "client"
  THEN [status |-> "error", message |-> "Simple AI error: <e>",
        summary |-> Lit("Unable to generate summary due to AI service error.")]
  ELSE LET result == SimpleAIClient_summarize_with_api(http, content)
       IN IF SimpleAIClient_is_available(api_key) /\ result.status = "success"
          THEN result
          ELSE SimpleAIClient_rule_based_summary(file_content, fault)

SimpleAIClient_generate_tags(fault, file_content) ==
  IF fault # "none"
  THEN [status |-> "error", message |-> "Simple AI error: <e>", tags |-> <<>>]
  ELSE [status |-> "success", tags |-> SimpleAIClient_categorize_content(file_content),
        model |-> "simple-rule-based"]

SimpleAIClient_query_file_content(api_key, http, content, fault, file_content, user_prompt) ==
  IF fault = "client"
  THEN [status |-> "error", message |-> "Simple AI error: <e>",
        answer |-> Lit("Sorry, I encountered an error while processing your question.")]
  ELSE LET result == SimpleAIClient_query_with_api(http, content)
       IN IF SimpleAIClient_is_available(api_key) /\ result.status = "success"
          THEN result
          ELSE SimpleAIClient_rule_based_query(file_content, user_prompt, fault)

\* the operations of SimpleAIClient that send a request to the Hugging Face API
SimpleAIClient_calls_api(api_key, capability, fault) ==
  /\ capability \in {"summary", "query"}
  /\ fault # "client"
  /\ SimpleAIClient_is_available(api_key)

(***************************************************************************)
(* app/ai/tagging.py: the rule-based tagger                                *)
(***************************************************************************)
MaxTags == 5

category_keywords ==
  <<
    [category |-> "Finance", keywords |-> <<
        <<"i","n","v","o","i","c","e">>, <<"b","i","l","l">>, <<"p","a","y","m","e","n","t">>,
        <<"f","i","n","a","n","c","i","a","l">>, <<"b","u","d","g","e","t">>,
        <<"m","o","n","e","y">>, <<"c","o","s","t">>, <<"e","x","p","e","n","s","e">>,
        <<"r","e","v","e","n","u","e">>
      >>],
    [category |-> "Work", keywords |-> <<
        <<"p","r","o","j","e","c","t">>, <<"m","e","e","t","i","n","g">>,
        <<"d","e","a","d","l","i","n","e">>, <<"r","e","p","o","r","t">>, <<"w","o","r","k">>,
        <<"b","u","s","i","n","e","s","s">>,
        <<"p","r","o","f","e","s","s","i","o","n","a","l">>, <<"t","e","a","m">>,
        <<"t","a","s","k">>
      >>],
    [category |-> "Personal", keywords |-> <<
        <<"f","a","m","i","l","y">>, <<"p","e","r","s","o","n","a","l">>,
        <<"p","r","i","v","a","t","e">>, <<"h","o","m","e">>, <<"l","o","v","e">>,
        <<"r","e","l","a","t","i","o","n","s","h","i","p">>, <<"f","r","i","e","n","d">>
      >>],
    [category |-> "Technology", keywords |-> <<
        <<"s","o","f","t","w","a","r","e">>, <<"c","o","d","e">>,
        <<"p","r","o","g","r","a","m","m","i","n","g">>,
        <<"d","e","v","e","l","o","p","m","e","n","t">>,
        <<"t","e","c","h","n","i","c","a","l">>, <<"s","y","s","t","e","m">>,
        <<"c","o","m","p","u","t","e","r">>, <<"d","i","g","i","t","a","l">>
      >>],
    [category |-> "Business", keywords |-> <<
        <<"c","o","m","p","a","n","y">>, <<"c","o","r","p","o","r","a","t","e">>,
        <<"e","n","t","e","r","p","r","i","s","e">>, <<"s","t","r","a","t","e","g","y">>,
        <<"m","a","n","a","g","e","m","e","n","t">>,
        <<"o","r","g","a","n","i","z","a","t","i","o","n">>
      >>],
    [category |-> "Education", keywords |-> <<
        <<"l","e","a","r","n","i","n","g">>, <<"s","t","u","d","y">>,
        <<"c","o","u","r","s","e">>, <<"e","d","u","c","a","t","i","o","n">>,
        <<"t","r","a","i","n","i","n","g">>, <<"a","c","a","d","e","m","i","c">>,
        <<"s","c","h","o","o","l">>, <<"u","n","i","v","e","r","s","i","t","y">>
      >>],
    [category |-> "Health", keywords |-> <<
        <<"m","e","d","i","c","a","l">>, <<"h","e","a","l","t","h">>,
        <<"d","o","c","t","o","r">>, <<"p","a","t","i","e","n","t">>,
        <<"t","r","e","a","t","m","e","n","t">>, <<"m","e","d","i","c","i","n","e">>,
        <<"h","o","s","p","i","t","a","l">>, <<"w","e","l","l","n","e","s","s">>
      >>],
    [category |-> "Legal", keywords |-> <<
        <<"l","e","g","a","l">>, <<"l","a","w">>, <<"c","o","n","t","r","a","c","t">>,
        <<"a","g","r","e","e","m","e","n","t">>, <<"l","e","g","a","l">>,
        <<"a","t","t","o","r","n","e","y">>, <<"c","o","u","r","t">>,
        <<"d","o","c","u","m","e","n","t">>
      >>],
    [category |-> "Marketing", keywords |-> <<
        <<"m","a","r","k","e","t","i","n","g">>,
        <<"a","d","v","e","r","t","i","s","i","n","g">>, <<"c","a","m","p","a","i","g","n">>,
        <<"p","r","o","m","o","t","i","o","n">>, <<"b","r","a","n","d">>,
        <<"c","u","s","t","o","m","e","r">>, <<"m","a","r","k","e","t">>
      >>],
    [category |-> "Research", keywords |-> <<
        <<"r","e","s","e","a","r","c","h">>, <<"s","t","u","d","y">>,
        <<"a","n","a","l","y","s","i","s">>, <<"d","a","t","a">>,
        <<"i","n","v","e","s","t","i","g","a","t","i","o","n">>, <<"s","u","r","v","e","y">>,
        <<"f","i","n","d","i","n","g","s">>
      >>],
    [category |-> "Project Management", keywords |-> <<
        <<"p","r","o","j","e","c","t">>, <<"m","a","n","a","g","e","m","e","n","t">>,
        <<"p","l","a","n","n","i","n","g">>, <<"s","c","h","e","d","u","l","e">>,
        <<"m","i","l","e","s","t","o","n","e">>,
        <<"d","e","l","i","v","e","r","a","b","l","e">>, <<"t","i","m","e","l","i","n","e">>
      >>],
    [category |-> "HR", keywords |-> <<
        <<"h","u","m","a","n"," ","r","e","s","o","u","r","c","e","s">>, <<"h","r">>,
        <<"e","m","p","l","o","y","e","e">>, <<"s","t","a","f","f">>,
        <<"r","e","c","r","u","i","t","m","e","n","t">>, <<"h","i","r","i","n","g">>,
        <<"p","e","r","s","o","n","n","e","l">>
      >>],
    [category |-> "Sales", keywords |-> <<
        <<"s","a","l","e","s">>, <<"r","e","v","e","n","u","e">>,
        <<"c","u","s","t","o","m","e","r">>, <<"d","e","a","l">>,
        <<"p","u","r","c","h","a","s","e">>, <<"t","r","a","n","s","a","c","t","i","o","n">>,
        <<"c","l","i","e","n","t">>
      >>],
    [category |-> "Creative", keywords |-> <<
        <<"d","e","s","i","g","n">>, <<"c","r","e","a","t","i","v","e">>, <<"a","r","t">>,
        <<"c","o","n","t","e","n","t">>, <<"m","e","d","i","a">>, <<"v","i","s","u","a","l">>,
        <<"c","r","e","a","t","i","v","e">>
      >>],
    [category |-> "Travel", keywords |-> <<
        <<"t","r","a","v","e","l">>, <<"t","r","i","p">>, <<"v","a","c","a","t","i","o","n">>,
        <<"d","e","s","t","i","n","a","t","i","o","n">>, <<"h","o","t","e","l">>,
        <<"f","l","i","g","h","t">>, <<"t","o","u","r","i","s","m">>
      >>],
    [category |-> "Real Estate", keywords |-> <<
        <<"p","r","o","p","e","r","t","y">>, <<"r","e","a","l"," ","e","s","t","a","t","e">>,
        <<"h","o","u","s","e">>, <<"a","p","a","r","t","m","e","n","t">>,
        <<"r","e","n","t","a","l">>, <<"m","o","r","t","g","a","g","e">>,
        <<"p","r","o","p","e","r","t","y">>
      >>],
    [category |-> "Medical", keywords |-> <<
        <<"m","e","d","i","c","a","l">>, <<"h","e","a","l","t","h">>,
        <<"d","o","c","t","o","r">>, <<"p","a","t","i","e","n","t">>,
        <<"t","r","e","a","t","m","e","n","t">>, <<"m","e","d","i","c","i","n","e">>,
        <<"h","o","s","p","i","t","a","l">>, <<"d","i","a","g","n","o","s","i","s">>
      >>]
  >>

kw_finance_extra ==
  << <<"i","n","v","o","i","c","e">>, <<"b","i","l","l">>, <<"p","a","y","m","e","n","t">>,
     <<"f","i","n","a","n","c","i","a","l">> >>

kw_work_extra ==
  << <<"r","e","p","o","r","t">>, <<"m","e","e","t","i","n","g">>,
     <<"p","r","o","j","e","c","t">>, <<"d","e","a","d","l","i","n","e">> >>

kw_personal_extra ==
  << <<"f","a","m","i","l","y">>, <<"p","e","r","s","o","n","a","l">>,
     <<"p","r","i","v","a","t","e">> >>

\* mutant: tags.append(tag), without the test
AppendIfAbsent_always(tags, tag) == Append(tags, tag)

\* if tag not in tags: tags.append(tag)
AppendIfAbsent(tags, tag) ==
  IF \E i \in 1..Len(tags) : tags[i] = tag THEN tags ELSE Append(tags, tag)

\* the body of generate_tags, reading the table self.category_keywords holds at
\* the time of the call; fault: an unexpected exception inside the try block
TagsFromTable(table, text, fault) ==
  IF Strip(text) = <<>> \/ fault THEN <<>>
  ELSE
    LET text_lower == Lower(text)
        hit == SelectSeq(table, LAMBDA e : ContainsAny(text_lower, e.keywords))
        tags0 == [i \in 1..Len(hit) |-> Lit(hit[i].category)]
        tags1 == IF ContainsAny(text_lower, kw_finance_extra)
                 THEN AppendIfAbsent(tags0, Lit("Finance")) ELSE tags0
        tags2 == IF ContainsAny(text_lower, kw_work_extra)
                 THEN AppendIfAbsent(tags1, Lit("Work")) ELSE tags1
        tags3 == IF ContainsAny(text_lower, kw_personal_extra)
                 THEN AppendIfAbsent(tags2, Lit("Personal")) ELSE tags2
    IN Take(tags3, MaxTags)

\* generate_tags on the table as __init__ built it
AITaggingSystem_generate_tags(text, fault) == TagsFromTable(category_keywords, text, fault)

(***************************************************************************)
(* app/ai/tagging.py: the extractive summarizer                            *)
(***************************************************************************)
ShortTextLen == 100

MinSentenceLen == 10

ShortDocLen == 150

TitleMaxLen == 100

MaxAchievements == 2

ScoreMinLen == 50

ScoreMaxLen == 120

BestMaxLen == 150

SummaryCap == 300

TruncateLen == 297

ExceptCap == 200

SentenceEnd == {".", "!", "?"}

important_terms ==
  << <<"p","r","o","j","e","c","t">>, <<"r","e","p","o","r","t">>,
     <<"s","u","m","m","a","r","y">>, <<"o","v","e","r","v","i","e","w">>,
     <<"i","n","t","r","o","d","u","c","t","i","o","n">> >>

title_words ==
  << <<"r","e","p","o","r","t">>, <<"d","o","c","u","m","e","n","t">>,
     <<"p","r","o","j","e","c","t">>, <<"o","v","e","r","v","i","e","w">>,
     <<"s","u","m","m","a","r","y">>, <<"a","n","a","l","y","s","i","s">> >>

achievement_keywords ==
  << <<"a","c","h","i","e","v","e","d">>, <<"c","o","m","p","l","e","t","e","d">>,
     <<"i","m","p","l","e","m","e","n","t","e","d">>,
     <<"s","u","c","c","e","s","s","f","u","l","l","y">>, <<"r","e","s","u","l","t">>,
     <<"o","u","t","c","o","m","e">>, <<"d","e","l","i","v","e","r","e","d">>,
     <<"f","i","n","i","s","h","e","d">>, <<"a","c","c","o","m","p","l","i","s","h","e","d">>,
     <<"d","e","v","e","l","o","p","e","d">>, <<"c","r","e","a","t","e","d">>,
     <<"b","u","i","l","t">> >>

feature_keywords ==
  << <<"f","e","a","t","u","r","e">>, <<"s","y","s","t","e","m">>,
     <<"t","e","c","h","n","o","l","o","g","y">>, <<"c","a","p","a","b","i","l","i","t","y">>,
     <<"f","u","n","c","t","i","o","n","a","l","i","t","y">>, <<"t","o","o","l">>,
     <<"p","l","a","t","f","o","r","m">>, <<"s","o","l","u","t","i","o","n">>,
     <<"s","e","r","v","i","c","e">> >>

info_keywords ==
  << <<"k","e","y">>, <<"i","m","p","o","r","t","a","n","t">>, <<"m","a","i","n">>,
     <<"p","r","i","m","a","r","y">>, <<"o","b","j","e","c","t","i","v","e">>,
     <<"g","o","a","l">>, <<"p","u","r","p","o","s","e">>, <<"a","i","m">>,
     <<"t","a","r","g","e","t">>, <<"f","o","c","u","s">> >>

status_keywords ==
  << <<"c","u","r","r","e","n","t","l","y">>, <<"s","t","a","t","u","s">>,
     <<"p","r","o","g","r","e","s","s">>, <<"s","c","h","e","d","u","l","e">>,
     <<"b","u","d","g","e","t">>, <<"r","e","a","d","y">>,
     <<"d","e","p","l","o","y","m","e","n","t">>, <<"p","r","o","d","u","c","t","i","o","n">> >>

content_keywords ==
  << <<"p","r","o","j","e","c","t">>, <<"s","y","s","t","e","m">>,
     <<"d","e","v","e","l","o","p","m","e","n","t">>, <<"t","e","a","m">>, <<"w","o","r","k">>,
     <<"i","m","p","l","e","m","e","n","t","a","t","i","o","n">> >>

\* re.split(r'[.!?]+', s)
RECURSIVE RegexSplit(_)
RegexSplit(s) ==
  LET ends == {i \in 1..Len(s) : s[i] \in SentenceEnd}
  IN IF ends = {} THEN <<s>>
     ELSE LET i == SetMin(ends)
              after == {j \in i..Len(s) : s[j] \notin SentenceEnd}
              k == IF after = {} THEN Len(s) + 1 ELSE SetMin(after)
          IN <<SubSeq(s, 1, i - 1)>> \o RegexSplit(SubSeq(s, k, Len(s)))

\* [s.strip() for s in sentences if s.strip() and len(s.strip()) > 10]
UsableSentences(text) ==
  LET parts == RegexSplit(text)
      kept == SelectSeq(parts,
                        LAMBDA q : Strip(q) # <<>> /\ Len(Strip(q)) > MinSentenceLen)
  IN [i \in 1..Len(kept) |-> Strip(kept[i])]

\* for sentence in candidates: if sentence not in summary_sentences: append
RECURSIVE AddAll(_, _)
AddAll(summary_sentences, candidates) ==
  IF candidates = <<>> THEN summary_sentences
  ELSE AddAll(AppendIfAbsent(summary_sentences, Head(candidates)), Tail(candidates))

\* [s for s in sentences if any(keyword in s.lower() for keyword in keywords)]
Matching(sentences, keywords) ==
  SelectSeq(sentences, LAMBDA q : ContainsAny(Lower(q), keywords))

SentenceScore(sentence) ==
  (IF ScoreMinLen <= Len(sentence) /\ Len(sentence) <= ScoreMaxLen THEN 2 ELSE 0)
  + Cardinality({j \in 1..Len(content_keywords) :
                   Contains(Lower(sentence), content_keywords[j])})

\* max(scored_sentences, key=score)[0]: the first sentence of the highest score
BestSentence(remaining) ==
  LET top == SetMax({SentenceScore(remaining[i]) : i \in 1..Len(remaining)})
  IN remaining[SetMin({i \in 1..Len(remaining) : SentenceScore(remaining[i]) = top})]

\* mutant: the best remaining sentence is added however many were collected
SelectSentences_always_scored(sentences) ==
  LET first_sentence == sentences[1]
      s1 == IF Len(first_sentence) < TitleMaxLen
               /\ ContainsAny(Lower(first_sentence), title_words)
            THEN <<first_sentence>> ELSE <<>>
      s2 == AddAll(s1, Take(Matching(sentences, achievement_keywords), MaxAchievements))
      s3 == AddAll(s2, Take(Matching(sentences, feature_keywords), 1))
      s4 == AddAll(s3, Take(Matching(sentences, info_keywords), 1))
      s5 == AddAll(s4, Take(Matching(sentences, status_keywords), 1))
      remaining == SelectSeq(sentences, LAMBDA q : \A i \in 1..Len(s5) : s5[i] # q)
  IN IF remaining # <<>> /\ Len(BestSentence(remaining)) < BestMaxLen
     THEN Append(s5, BestSentence(remaining))
     ELSE s5

\* steps 1-6 of generate_summary: the sentences selected
SelectSentences(sentences) ==
  LET first_sentence == sentences[1]
      s1 == IF Len(first_sentence) < TitleMaxLen
               /\ ContainsAny(Lower(first_sentence), title_words)
            THEN <<first_sentence>> ELSE <<>>
      s2 == AddAll(s1, Take(Matching(sentences, achievement_keywords), MaxAchievements))
      s3 == AddAll(s2, Take(Matching(sentences, feature_keywords), 1))
      s4 == AddAll(s3, Take(Matching(sentences, info_keywords), 1))
      s5 == AddAll(s4, Take(Matching(sentences, status_keywords), 1))
      remaining == SelectSeq(sentences, LAMBDA q : \A i \in 1..Len(s5) : s5[i] # q)
  IN IF Len(s5) < 2 /\ remaining # <<>> /\ Len(BestSentence(remaining)) < BestMaxLen
     THEN Append(s5, BestSentence(remaining))
     ELSE s5

EndsWithDot(s) == Len(s) > 0 /\ s[Len(s)] = "."

\* the loop keeping complete sentences while the running length stays under 297
RECURSIVE Accumulate(_, _)
Accumulate(truncated_summary, rest) ==
  IF rest = <<>> THEN truncated_summary
  ELSE IF Len(truncated_summary \o Head(rest)) < TruncateLen
  THEN Accumulate(truncated_summary \o Head(rest) \o <<".", " ">>, Tail(rest))
  ELSE truncated_summary

\* mutant: only the first selected sentence is kept
FinalSummary_first_only(summary_sentences) == summary_sentences[1] \o <<".">>

\* step 7 of generate_summary: join, end with a period, limit the length
FinalSummary(summary_sentences) ==
  LET joined == Join(summary_sentences, <<".", " ">>)
      summary == IF EndsWithDot(joined) THEN joined ELSE joined \o <<".">>
      sentences_in_summary == SplitOn(summary, <<".", " ">>)
      truncated == Strip(Accumulate(<<>>, sentences_in_summary))
  IN IF Len(summary) > SummaryCap
     THEN IF Len(sentences_in_summary) > 1
          THEN IF EndsWithDot(truncated) THEN truncated
               ELSE truncated \o <<".", ".", ".">>
          ELSE Take(summary, TruncateLen) \o <<".", ".", ".">>
     ELSE summary

\* fault: an unexpected exception inside the try block
AITaggingSystem_generate_summary(text0, fault) ==
  IF Strip(text0) = <<>> THEN <<>>
  ELSE
    LET text == Strip(text0)
        sentences == UsableSentences(text)
        important == Matching(sentences, important_terms)
        summary_sentences == SelectSentences(sentences)
        first3 == Join(Take(sentences, 3), <<".", " ">>) \o <<".">>
    IN IF fault
       THEN IF Len(text) > ExceptCap
            THEN Take(text, ExceptCap) \o <<".", ".", ".">> ELSE text
       ELSE IF Len(text) < ShortTextLen THEN text
       ELSE IF Len(sentences) <= 2
       THEN IF Len(text) > ShortDocLen
            THEN IF important # <<>> THEN important[1] \o <<".">>
                 ELSE IF sentences # <<>> THEN sentences[1] \o <<".">>
                 ELSE Take(text, ShortDocLen) \o <<".", ".", ".">>
            ELSE text
       ELSE IF summary_sentences # <<>> THEN FinalSummary(summary_sentences)
       ELSE IF Len(sentences) >= 3
       THEN IF Len(first3) > SummaryCap
            THEN Take(first3, SummaryCap) \o <<".", ".", ".">> ELSE first3
       ELSE Join(sentences, <<".", " ">>) \o <<".">>

(***************************************************************************)
(* app/ai/enhanced_processor.py: the orchestrator's own rule-based methods *)
(***************************************************************************)
ReadingSpeed == 200

MaxTopics == 5

MinTopicLen == 3

Digits == {"0","1","2","3","4","5","6","7","8","9"}

\* c.isalnum()
IsAlnum(c) ==
  \/ c \in Digits
  \/ \E i \in 1..Len(Upper) : c = Upper[i] \/ c = Lowercase[i]

financial_words ==
  << <<"i","n","v","o","i","c","e">>, <<"b","i","l","l">>, <<"p","a","y","m","e","n","t">>,
     <<"f","i","n","a","n","c","i","a","l">> >>

report_words ==
  << <<"r","e","p","o","r","t">>, <<"a","n","a","l","y","s","i","s">>,
     <<"s","t","u","d","y">> >>

meeting_words ==
  << <<"m","e","e","t","i","n","g">>, <<"a","g","e","n","d","a">>,
     <<"m","i","n","u","t","e","s">> >>

legal_words ==
  << <<"c","o","n","t","r","a","c","t">>, <<"a","g","r","e","e","m","e","n","t">>,
     <<"l","e","g","a","l">> >>

technical_words ==
  << <<"c","o","d","e">>, <<"p","r","o","g","r","a","m","m","i","n","g">>,
     <<"s","o","f","t","w","a","r","e">> >>

communication_words ==
  << <<"e","m","a","i","l">>, <<"m","e","s","s","a","g","e">>,
     <<"c","o","r","r","e","s","p","o","n","d","e","n","c","e">> >>

stop_words ==
  { <<"t","h","e">>, <<"a">>, <<"a","n">>, <<"a","n","d">>, <<"o","r">>, <<"b","u","t">>,
     <<"i","n">>, <<"o","n">>, <<"a","t">>, <<"t","o">>, <<"f","o","r">>, <<"o","f">>,
     <<"w","i","t","h">>, <<"b","y">>, <<"i","s">>, <<"a","r","e">>, <<"w","a","s">>,
     <<"w","e","r","e">>, <<"b","e">>, <<"b","e","e","n">>, <<"h","a","v","e">>,
     <<"h","a","s">>, <<"h","a","d">>, <<"d","o">>, <<"d","o","e","s">>, <<"d","i","d">>,
     <<"w","i","l","l">>, <<"w","o","u","l","d">>, <<"c","o","u","l","d">>,
     <<"s","h","o","u","l","d">>, <<"m","a","y">>, <<"m","i","g","h","t">>, <<"c","a","n">>,
     <<"t","h","i","s">>, <<"t","h","a","t">>, <<"t","h","e","s","e">>,
     <<"t","h","o","s","e">>, <<"i">>, <<"y","o","u">>, <<"h","e">>, <<"s","h","e">>,
     <<"i","t">>, <<"w","e">>, <<"t","h","e","y">>, <<"m","e">>, <<"h","i","m">>,
     <<"h","e","r">>, <<"u","s">>, <<"t","h","e","m">> }

\* mutant: the precedence of the content types read from the bottom up
detect_content_type_last(content) ==
  LET content_lower == Lower(content)
  IN IF ContainsAny(content_lower, communication_words) THEN "Communication"
     ELSE IF ContainsAny(content_lower, technical_words) THEN "Technical Document"
     ELSE IF ContainsAny(content_lower, legal_words) THEN "Legal Document"
     ELSE IF ContainsAny(content_lower, meeting_words) THEN "Meeting Document"
     ELSE IF ContainsAny(content_lower, report_words) THEN "Report"
     ELSE IF ContainsAny(content_lower, financial_words) THEN "Financial Document"
     ELSE "General Document"

detect_content_type(content) ==
  LET content_lower == Lower(content)
  IN IF ContainsAny(content_lower, financial_words) THEN "Financial Document"
     ELSE IF ContainsAny(content_lower, report_words) THEN "Report"
     ELSE IF ContainsAny(content_lower, meeting_words) THEN "Meeting Document"
     ELSE IF ContainsAny(content_lower, legal_words) THEN "Legal Document"
     ELSE IF ContainsAny(content_lower, technical_words) THEN "Technical Document"
     ELSE IF ContainsAny(content_lower, communication_words) THEN "Communication"
     ELSE "General Document"

\* the keys of word_freq, in the order of their first insertion
RECURSIVE FirstSeen(_, _)
FirstSeen(seen, ws) ==
  IF ws = <<>> THEN seen ELSE FirstSeen(AppendIfAbsent(seen, Head(ws)), Tail(ws))

\* sorted(items, key=count, reverse=True): a stable sort, highest count first
RECURSIVE SortByCount(_, _)
SortByCount(keys, count) ==
  IF keys = <<>> THEN <<>>
  ELSE LET top == SetMax({count[keys[i]] : i \in 1..Len(keys)})
           k == SetMin({i \in 1..Len(keys) : count[keys[i]] = top})
       IN <<keys[k]>> \o SortByCount(SubSeq(keys, 1, k - 1) \o SubSeq(keys, k + 1, Len(keys)),
                                     count)

extract_key_topics(content) ==
  LET words == Words(Lower(content))
      cleaned == [i \in 1..Len(words) |-> SelectSeq(words[i], IsAlnum)]
      counted == SelectSeq(cleaned, LAMBDA w : Len(w) > MinTopicLen /\ w \notin stop_words)
      keys == FirstSeen(<<>>, counted)
      word_freq == [w \in {keys[i] : i \in 1..Len(keys)} |->
                      Cardinality({j \in 1..Len(counted) : counted[j] = w})]
      top_words == Take(SortByCount(keys, word_freq), MaxTopics)
  IN [i \in 1..Len(top_words) |-> Text(top_words[i])]

\* {}: a dict with no key
EmptyDict == [k \in {} |-> 0]

\* fault: an unexpected exception inside the try block
basic_analysis(file_content, fault) ==
  IF fault THEN EmptyDict
  ELSE [word_count |-> Len(Words(file_content)),
        character_count |-> Len(file_content),
        sentence_count |->
          Len(SelectSeq(SplitOn(file_content, <<".">>), LAMBDA q : Strip(q) # <<>>)),
        paragraph_count |->
          Len(SelectSeq(SplitOn(file_content, <<"\n", "\n">>), LAMBDA q : Strip(q) # <<>>)),
        estimated_reading_time |-> Len(Words(file_content)) \div ReadingSpeed,
        content_type |-> detect_content_type(file_content),
        key_topics |-> extract_key_topics(file_content)]

fallback_query(file_content, user_prompt, fault) ==
  IF fault = "fallback"
  THEN [status |-> "error", message |-> "Fallback query failed: <e>",
        answer |-> Lit("Sorry, I cannot process your question at this time.")]
  ELSE LET prompt_lower == Lower(user_prompt)
           sentences == SplitOn(file_content, <<".", " ">>)
           answer ==
             IF Contains(prompt_lower, kw_summary) \/ Contains(prompt_lower, kw_summarize)
             THEN [lit |-> "Here's a summary: ",
                   chars |-> Join(Take(sentences, 3), <<".", " ">>) \o <<".">>]
             ELSE IF Contains(prompt_lower, kw_what)
             THEN [lit |-> "Based on the document: ",
                   chars |-> Join(Take(sentences, 2), <<" ">>)]
             ELSE Lit("I found information in the document that might be relevant to your question. Please ask a more specific question about the content.")
       IN [status |-> "success", answer |-> answer, model |-> "fallback-rule-based"]

fallback_summary(file_content, fault) ==
  IF fault = "fallback"
  THEN [status |-> "error", message |-> "Fallback summary failed: <e>",
        summary |-> Lit("Unable to generate summary.")]
  ELSE [status |-> "success",
        summary |-> Text(AITaggingSystem_generate_summary(file_content, fault = "tagger")),
        model |-> "fallback-rule-based"]

fallback_tags(file_content, fault) ==
  IF fault = "fallback"
  THEN [status |-> "error", message |-> "Fallback tags failed: <e>", tags |-> <<>>]
  ELSE [status |-> "success",
        tags |-> AITaggingSystem_generate_tags(file_content, fault = "tagger"),
        model |-> "fallback-rule-based"]

(***************************************************************************)
(* The state of one EnhancedAIProcessor and of the request it is serving.  *)
(*   openai_key, hf_key  whether OPENAI_API_KEY / HUGGINGFACE_API_KEY were *)
(*                       set when the clients were constructed             *)
(*   pc                  "idle", "loop" (inside a chain's for loop),       *)
(*                       "analysis" (process_file_complete, after both     *)
(*                       chains), "done" (the operation has returned)      *)
(*   op                  the operation called                              *)
(*   capability          the chain that is running: summary, tags or query *)
(*   idx                 the position of the for loop in provider_priority *)
(*   calls               the provider operations invoked for this request  *)
(*   http_log            the HTTP requests sent for this request           *)
(*   summary_result, tags_result   locals of process_file_complete         *)
(*   result              what the operation returned                       *)
(*   category_keys       the keys of the dict category_keywords of the     *)
(*                       AITaggingSystem singleton, in insertion order     *)
(***************************************************************************)
VARIABLES openai_key, hf_key, pc, op, file_content, user_prompt, capability, idx,
          calls, http_log, summary_result, tags_result, result, category_keys,
          file_metadata, shared_links, disk, task_queue, sequences, request,
          local_models, threads, pipelines

vars == <<openai_key, hf_key, pc, op, file_content, user_prompt, capability, idx,
          calls, http_log, summary_result, tags_result, result, category_keys,
          file_metadata, shared_links, disk, task_queue, sequences, request,
          local_models, threads, pipelines>>

(***************************************************************************)
(* The state of the file service (app/main.py) and of the lazily loaded    *)
(* local models (app/ai/huggingface_client.py).                            *)
(*   file_metadata   the rows of table file_metadata, in insertion order   *)
(*   shared_links    the rows of table shared_links                        *)
(*   disk            the paths under uploaded_files/ that exist            *)
(*   task_queue      the paths handed to process_file_task and not yet     *)
(*                   processed by the worker                               *)
(*   sequences       the last id of file_metadata, the tokens issued       *)
(*   request         the last request handled: its endpoint, arguments,    *)
(*                   the locals of its handler and the status returned     *)
(*   local_models    self.local_summarizer and self.local_qa_model of the  *)
(*                   HuggingFaceClient singleton                           *)
(*   threads         for each thread inside a _get_local_ method: the      *)
(*                   method, its position, the pipeline it holds, and what *)
(*                   the method returned to it                             *)
(*   pipelines       the pipelines constructed so far                      *)
(***************************************************************************)
ai_vars == <<openai_key, hf_key, pc, op, file_content, user_prompt, capability, idx,
             calls, http_log, summary_result, tags_result, result, category_keys>>

storage_vars == <<file_metadata, shared_links, disk, task_queue, sequences, request>>

loader_vars == <<local_models, threads, pipelines>>

\* Python's None; the i-th pipeline constructed is the instance <<i>>
None == <<>>

\* the threads that serve requests
MaxThreads == 2

Threads == 1..MaxThreads

\* no request has been handled
NoRequest == [endpoint |-> "none"]

\* the tables are empty and nothing has been uploaded
StorageInit ==
  /\ file_metadata = <<>>
  /\ shared_links = <<>>
  /\ disk = {}
  /\ task_queue = {}
  /\ sequences = [file |-> 0, token |-> 0]
  /\ request = NoRequest

\* HuggingFaceClient.__init__: no local model is loaded; no thread is inside
\* a _get_local_ method
LoaderInit ==
  /\ local_models = [local_summarizer |-> None, local_qa_model |-> None]
  /\ threads = [t \in Threads |-> [pc |-> "idle"]]
  /\ pipelines = <<>>

\* the keys of category_keywords after AITaggingSystem.__init__
InitialKeys == [i \in 1..Len(category_keywords) |-> category_keywords[i].category]

provider_priority == <<"openai", "simple_ai", "fallback">>

Operations == {"summary", "tags", "query", "complete"}

RECURSIVE SeqsUpTo(_, _)
SeqsUpTo(S, n) ==
  IF n = 0 THEN {<<>>}
  ELSE LET shorter == SeqsUpTo(S, n - 1)
       IN shorter \cup {Append(q, c) : q \in shorter, c \in S}

\* the documents of the model: every text up to MaxDocLen, and some samples
SampleDocs ==
  { <<"\n", " ">>, <<"H","R">>, <<"l","a","w">>,
    <<"h",".", " ", "r", ".", " ", "h", "\n", "\n", "r">> }

Docs == SeqsUpTo(DocChars, MaxDocLen) \cup SampleDocs

\* the questions of the model
Prompts ==
  { <<>>, <<" ">>, <<"W","h","a","t","?">>, <<"a"," ">> \o kw_summary }

\* no value: the operation has not returned
NoResult == [status |-> "none"]

\* an exception leaves the operation instead of a result
Raised == [status |-> "raised"]

\* mutant: `not file_content`, without strip()
IsBlank_nostrip(content) == content = <<>>

\* `not file_content.strip()`
IsBlank(content) == Strip(content) = <<>>

\* mutant: every operation returns the placeholder text in its payload
PreconditionFailure_placeholder(operation) ==
  [status |-> "error", message |-> "No content to process",
   summary |-> Lit("The file contains no readable text content."),
   answer |-> Lit("The file contains no readable text content."),
   tags |-> <<>>, analysis |-> [k \in {} |-> 0]]

\* the result of the precondition check of each operation
PreconditionFailure(operation) ==
  CASE operation = "query" ->
         [status |-> "error", message |-> "No content to query",
          answer |-> Lit("The file contains no readable text content.")]
    [] operation = "summary" ->
         [status |-> "error", message |-> "No content to summarize",
          summary |-> Lit("The file contains no readable text content.")]
    [] operation = "tags" ->
         [status |-> "error", message |-> "No content to tag", tags |-> <<>>]
    [] OTHER ->
         [status |-> "error", message |-> "No content to process",
          summary |-> EmptyStr, tags |-> <<>>, analysis |-> EmptyDict]

\* the return after the for loop of each chain
AllProvidersFailed(cap) ==
  CASE cap = "query" ->
         [status |-> "error", message |-> "All AI providers failed",
          answer |-> Lit("Sorry, I'm unable to process your question at this time.")]
    [] cap = "summary" ->
         [status |-> "error", message |-> "All AI providers failed",
          summary |-> Lit("Unable to generate summary due to AI service errors.")]
    [] OTHER ->
         [status |-> "error", message |-> "All AI providers failed", tags |-> <<>>]

\* mutant: a success does not end the loop
ShortCircuit_never(res) == FALSE

\* mutant: the test of the status is inverted
ShortCircuit_inverted(res) == res.status # "success"

\* `if result["status"] == "success": return result`
ShortCircuit(res) == res.status = "success"

\* mutant: the loop has no except clause
CatchesException_not == FALSE

\* `except Exception as e: ... continue` around each iteration of the loop
CatchesException == TRUE

\* mutant: the openai branch does not ask is_available()
OpenAIGuard_unchecked(api_key) == TRUE

\* the guard of the openai branch: `provider == "openai" and is_available()`
OpenAIGuard(api_key) == OpenAIClient_is_available(api_key)

\* the except clause of process_file_complete
CompleteFailed ==
  [status |-> "error", message |-> "Processing failed: <e>",
   summary |-> EmptyStr, tags |-> <<>>, analysis |-> EmptyDict]

\* mutant: a failed Summarize chain aborts the bundle
CompleteBundle_aborts(sres, tres, analysis) ==
  IF sres.status = "success"
  THEN [status |-> "success", summary |-> sres.summary,
        tags |-> IF tres.status = "success" THEN tres.tags ELSE <<>>,
        analysis |-> analysis,
        summary_model |-> sres.model,
        tags_model |-> IF "model" \in DOMAIN tres THEN tres.model ELSE "unknown"]
  ELSE [status |-> "error", message |-> "Processing failed: <e>",
        summary |-> [lit |-> "", chars |-> <<>>], tags |-> <<>>,
        analysis |-> [k \in {} |-> 0]]

\* the bundle process_file_complete returns
CompleteBundle(sres, tres, analysis) ==
  [status |-> "success",
   summary |-> IF sres.status = "success" THEN Get(sres, "summary", EmptyStr) ELSE EmptyStr,
   tags |-> IF tres.status = "success" THEN Get(tres, "tags", <<>>) ELSE <<>>,
   analysis |-> analysis,
   summary_model |-> Get(sres, "model", "unknown"),
   tags_model |-> Get(tres, "model", "unknown")]

OpenAIResult(cap, http, content, fault) ==
  CASE cap = "summary" -> OpenAIClient_generate_summary(openai_key, http, content, fault)
    [] cap = "tags" -> OpenAIClient_generate_tags(openai_key, http, content, fault)
    [] OTHER -> OpenAIClient_query_file_content(openai_key, http, content, fault)

\* mutant: simple_ai's in-process path is the rule-based engine of the fallback
SimpleAIResult_rule_engine(cap, http, content, fault) ==
  CASE cap = "summary" -> fallback_summary(file_content, "none")
    [] cap = "tags" -> fallback_tags(file_content, "none")
    [] OTHER -> fallback_query(file_content, user_prompt, "none")

SimpleAIResult(cap, http, content, fault) ==
  CASE cap = "summary" ->
         SimpleAIClient_generate_summary(hf_key, http, content, fault, file_content)
    [] cap = "tags" -> SimpleAIClient_generate_tags(fault, file_content)
    [] OTHER ->
         SimpleAIClient_query_file_content(hf_key, http, content, fault, file_content,
                                           user_prompt)

FallbackResult(cap, fault) ==
  CASE cap = "summary" -> fallback_summary(file_content, fault)
    [] cap = "tags" -> fallback_tags(file_content, fault)
    [] OTHER -> fallback_query(file_content, user_prompt, fault)

Init ==
  /\ openai_key \in BOOLEAN
  /\ hf_key \in BOOLEAN
  /\ pc = "idle"
  /\ op = "none"
  /\ file_content = <<>>
  /\ user_prompt = <<>>
  /\ capability = "none"
  /\ idx = 1
  /\ calls = <<>>
  /\ http_log = <<>>
  /\ summary_result = NoResult
  /\ tags_result = NoResult
  /\ result = NoResult
  /\ category_keys = InitialKeys
  /\ StorageInit
  /\ LoaderInit

(***************************************************************************)
(* The ways an iteration of a chain's loop ends.                           *)
(***************************************************************************)
\* the chain's function returns res to its caller
Returns(res) ==
  IF op = "complete"
  THEN IF capability = "summary"
       THEN /\ summary_result' = res
            /\ capability' = "tags"
            /\ idx' = 1
            /\ pc' = "loop"
            /\ UNCHANGED <<tags_result, result>>
       ELSE /\ tags_result' = res
            /\ pc' = "analysis"
            /\ UNCHANGED <<summary_result, capability, idx, result>>
  ELSE /\ result' = res
       /\ pc' = "done"
       /\ UNCHANGED <<summary_result, tags_result, capability, idx>>

\* an exception leaves the chain's function
Propagates ==
  /\ result' = IF op = "complete" THEN CompleteFailed ELSE Raised
  /\ pc' = "done"
  /\ UNCHANGED <<summary_result, tags_result, capability, idx>>

\* the loop goes on to the next provider, or ends
Continues ==
  IF idx < Len(provider_priority)
  THEN /\ idx' = idx + 1
       /\ UNCHANGED <<pc, capability, summary_result, tags_result, result>>
  ELSE Returns(AllProvidersFailed(capability))

\* mutant: the loop returns the first result it gets, whatever its status
Iterated_returns_failure(raised, res) ==
  IF raised THEN Continues ELSE Returns(res)

\* the end of the iteration that called a remote-capable provider
Iterated(raised, res) ==
  IF raised
  THEN IF CatchesException THEN Continues ELSE Propagates
  ELSE IF ShortCircuit(res) THEN Returns(res) ELSE Continues

\* an entry of calls: the provider operation invoked, what is_available() was at
\* that moment, how the call ended, and the result it returned if a success
Invocation(provider, available, outcome, res) ==
  [capability |-> capability, provider |-> provider, available |-> available,
   outcome |-> outcome,
   returned |-> IF outcome = "success" THEN res ELSE NoResult]

(***************************************************************************)
(* A caller invokes generate_summary, generate_tags, query_file_content or *)
(* process_file_complete; the precondition check runs.                     *)
(***************************************************************************)
Call(operation, content, prompt) ==
  /\ pc = "idle"
  /\ op' = operation
  /\ file_content' = content
  /\ user_prompt' = prompt
  /\ calls' = <<>>
  /\ http_log' = <<>>
  /\ summary_result' = NoResult
  /\ tags_result' = NoResult
  /\ idx' = 1
  /\ IF IsBlank(content)
     THEN /\ result' = PreconditionFailure(operation)
          /\ pc' = "done"
          /\ capability' = "none"
     ELSE /\ result' = NoResult
          /\ pc' = "loop"
          /\ capability' = IF operation = "complete" THEN "summary" ELSE operation
  /\ UNCHANGED <<storage_vars, loader_vars, category_keys, openai_key, hf_key>>

\* the iteration of the loop for provider "openai"
TryOpenAI ==
  /\ pc = "loop"
  /\ provider_priority[idx] = "openai"
  /\ IF ~OpenAIGuard(openai_key)
     THEN /\ Continues
          /\ UNCHANGED <<calls, http_log>>
     ELSE \E http \in HttpOutcomes, content \in RemoteTexts,
             fault \in OpenAIFaults \cup {"escapes"} :
            LET res == OpenAIResult(capability, http, content, fault)
                raised == fault = "escapes"
            IN /\ calls' = Append(calls,
                             Invocation("openai", OpenAIClient_is_available(openai_key),
                                        IF raised THEN "raised" ELSE res.status, res))
               /\ http_log' = IF fault = "none" /\ OpenAIClient_is_available(openai_key)
                              THEN Append(http_log, [api |-> "openai", capability |-> capability,
                                                    timed_out |-> http = "timeout"])
                              ELSE http_log
               /\ Iterated(raised, res)
  /\ UNCHANGED <<storage_vars, loader_vars, category_keys, openai_key, hf_key, op, file_content, user_prompt>>

\* the iteration of the loop for provider "simple_ai"
TrySimpleAI ==
  /\ pc = "loop"
  /\ provider_priority[idx] = "simple_ai"
  /\ \E http \in HttpOutcomes, content \in RemoteTexts,
        fault \in SimpleAIFaults \cup {"escapes"} :
       LET res == SimpleAIResult(capability, http, content, fault)
           raised == fault = "escapes"
       IN /\ calls' = Append(calls,
                        Invocation("simple_ai", SimpleAIClient_is_available(hf_key),
                                   IF raised THEN "raised" ELSE res.status, res))
          /\ http_log' = IF ~raised /\ SimpleAIClient_calls_api(hf_key, capability, fault)
                         THEN Append(http_log, [api |-> "huggingface", capability |-> capability,
                                               timed_out |-> http = "timeout"])
                         ELSE http_log
          /\ Iterated(raised, res)
  /\ UNCHANGED <<storage_vars, loader_vars, category_keys, openai_key, hf_key, op, file_content, user_prompt>>

\* the iteration of the loop for provider "fallback"
TryFallback ==
  /\ pc = "loop"
  /\ provider_priority[idx] = "fallback"
  /\ \E fault \in FallbackFaults :
       LET res == FallbackResult(capability, fault)
       IN /\ calls' = Append(calls, Invocation("fallback", TRUE, res.status, res))
          /\ Returns(res)
  /\ UNCHANGED <<storage_vars, loader_vars, category_keys, openai_key, hf_key, op, file_content, user_prompt, http_log>>

\* process_file_complete, after both chains: the analysis and the bundle
Analyse ==
  /\ pc = "analysis"
  /\ \E fault \in BOOLEAN :
       /\ result' = CompleteBundle(summary_result, tags_result,
                                   basic_analysis(file_content, fault))
       /\ calls' = Append(calls, Invocation("basic_analysis", TRUE,
                                            IF fault THEN "error" ELSE "success",
                                            NoResult))
  /\ pc' = "done"
  /\ UNCHANGED <<storage_vars, loader_vars, category_keys, openai_key, hf_key, op, file_content, user_prompt, capability, idx,
                 http_log, summary_result, tags_result>>

\* the caller has taken the result; the processor is ready for the next request
Finish ==
  /\ pc = "done"
  /\ pc' = "idle"
  /\ op' = "none"
  /\ file_content' = <<>>
  /\ user_prompt' = <<>>
  /\ capability' = "none"
  /\ idx' = 1
  /\ calls' = <<>>
  /\ http_log' = <<>>
  /\ summary_result' = NoResult
  /\ tags_result' = NoResult
  /\ result' = NoResult
  /\ UNCHANGED <<storage_vars, loader_vars, category_keys, openai_key, hf_key>>

Next ==
  \/ \E operation \in Operations \ {"query"}, content \in Docs :
       Call(operation, content, <<>>)
  \/ \E content \in Docs, prompt \in Prompts : Call("query", content, prompt)
  \/ TryOpenAI
  \/ TrySimpleAI
  \/ TryFallback
  \/ Analyse
  \/ Finish

Spec == Init /\ [][Next]_vars

(***************************************************************************)
(* Properties of the orchestrator.                                         *)
(***************************************************************************)
\* the entries of calls that are provider operations
ProviderCalls == {i \in 1..Len(calls) : calls[i].provider # "basic_analysis"}

\* what the chain of a capability returned to its caller
ChainResult(cap) ==
  IF op = "complete"
  THEN IF cap = "summary" THEN summary_result ELSE tags_result
  ELSE result

\* the priority list [openai, simple_ai, fallback]
Rank(provider) ==
  CASE provider = "openai" -> 1 [] provider = "simple_ai" -> 2 [] OTHER -> 3

SameChain(i, j) == calls[i].capability = calls[j].capability

PayloadKey(operation) ==
  CASE operation = "summary" -> "summary" [] operation = "tags" -> "tags" [] OTHER -> "answer"

SingleOps == {"summary", "tags", "query"}

\* C1: once a provider returns a success, that result is what the chain returns
\* and no later provider of the priority list is invoked for that request; so
\* at most one provider produces a success per request.
C1_ShortCircuit ==
  \A i \in ProviderCalls :
    calls[i].outcome = "success" =>
      /\ \A j \in ProviderCalls : j # i /\ SameChain(i, j) =>
            j < i /\ calls[j].outcome # "success"
      /\ ChainResult(calls[i].capability) = calls[i].returned

\* C1 witness: OpenAI succeeded, its result was returned, nothing else was called
C1_Witness ==
  /\ pc = "done"
  /\ op = "summary"
  /\ Len(calls) = 1
  /\ calls[1].provider = "openai"
  /\ calls[1].outcome = "success"
  /\ result = calls[1].returned

\* C2: providers are attempted strictly in the order openai, simple_ai,
\* fallback; when openai is unavailable and simple_ai's call fails, the fallback
\* is called, and if it succeeds the result is a success whose "model" is the
\* fallback's and which carries nothing of the earlier failure.
C2_FallbackOrder ==
  /\ \A i, j \in ProviderCalls :
       i < j /\ SameChain(i, j) => Rank(calls[i].provider) < Rank(calls[j].provider)
  /\ ( /\ pc = "done"
       /\ op \in SingleOps
       /\ ~openai_key
       /\ \E i \in ProviderCalls :
            calls[i].provider = "simple_ai" /\ calls[i].outcome # "success" )
     => /\ Len(calls) = 2
        /\ calls[1].provider = "simple_ai"
        /\ calls[2].provider = "fallback"
        /\ calls[2].outcome = "success" =>
             /\ result.status = "success"
             /\ result.model = "fallback-rule-based"
             /\ DOMAIN result = {"status", "model", PayloadKey(op)}

\* C2 witness: openai unavailable, simple_ai failed, the fallback answered
C2_Witness ==
  /\ pc = "done"
  /\ op = "summary"
  /\ ~openai_key
  /\ Len(calls) = 2
  /\ calls[1].provider = "simple_ai"
  /\ calls[1].outcome = "error"
  /\ calls[2].provider = "fallback"
  /\ result.status = "success"
  /\ result.model = "fallback-rule-based"

\* C3, as claimed: every provider operation that is invoked belongs to a
\* provider whose is_available() is true at that moment.
C3_OnlyIfAvailable == \A i \in ProviderCalls : calls[i].available

\* C3, amended: the OpenAI provider's operation is invoked only if its
\* is_available() is true at that moment; simple_ai is invoked whatever its
\* is_available() says, which only gates its own Hugging Face request; no
\* request is sent to a remote service whose key is missing.
C3_OpenAIOnlyIfAvailable ==
  /\ \A i \in ProviderCalls : calls[i].provider = "openai" => calls[i].available
  /\ \A k \in 1..Len(http_log) :
       /\ http_log[k].api = "openai" => openai_key
       /\ http_log[k].api = "huggingface" => hf_key
  /\ pc = "done" /\ Strip(file_content) # <<>> /\ ~openai_key =>
       /\ calls # <<>>
       /\ calls[1].provider = "simple_ai"

\* C3 witness: no key at all; openai was skipped, simple_ai was invoked though its
\* is_available() is false, and no request was sent
C3_Witness ==
  /\ pc = "done"
  /\ ~openai_key
  /\ ~hf_key
  /\ calls # <<>>
  /\ calls[1].provider = "simple_ai"
  /\ ~calls[1].available
  /\ http_log = <<>>

\* a result dictionary of the operation: a status, the operation's payload,
\* and a message when it is an error
WellFormed(operation, res) ==
  /\ "status" \in DOMAIN res
  /\ res.status \in {"success", "error"}
  /\ res.status = "error" => "message" \in DOMAIN res
  /\ IF operation = "complete"
     THEN {"summary", "tags", "analysis"} \subseteq DOMAIN res
     ELSE PayloadKey(operation) \in DOMAIN res

\* C4: a provider operation that raises is treated as that provider's failure:
\* the next provider of the list is tried; no exception leaves the operation,
\* which returns a well-formed result dictionary.
C4_NeverThrows ==
  /\ result # Raised
  /\ pc = "done" => WellFormed(op, result)
  /\ \A i \in ProviderCalls :
       calls[i].outcome = "raised" =>
         \/ /\ i < Len(calls)
            /\ SameChain(i, i + 1)
            /\ Rank(calls[i + 1].provider) = Rank(calls[i].provider) + 1
         \/ /\ i = Len(calls)
            /\ pc = "loop"
            /\ capability = calls[i].capability
            /\ idx = Rank(calls[i].provider) + 1

\* C4 witness: a provider raised, and the request still returned a success
C4_Witness ==
  /\ pc = "done"
  /\ op = "query"
  /\ \E i \in ProviderCalls : calls[i].outcome = "raised"
  /\ result.status = "success"

\* C5: for a document that is not blank, whatever the remote providers do
\* (unavailable, error status, timeout, exception), the operation returns a
\* success, the terminal rule-based provider running as written.
C5_AlwaysSuccess ==
  ( /\ pc = "done"
    /\ Strip(file_content) # <<>>
    /\ \A i \in ProviderCalls :
         calls[i].provider = "fallback" => calls[i].outcome = "success" )
  => result.status = "success"

\* C5 witness: OpenAI answered with an error, simple_ai raised, and the request
\* returned the rule-based success
C5_Witness ==
  /\ pc = "done"
  /\ op = "tags"
  /\ Len(calls) = 3
  /\ calls[1].provider = "openai"
  /\ calls[1].outcome = "error"
  /\ calls[2].outcome = "raised"
  /\ result.status = "success"
  /\ result.model = "fallback-rule-based"

\* the empty default of a payload
EmptyPayload(res) ==
  /\ "summary" \in DOMAIN res => res.summary = EmptyStr
  /\ "answer" \in DOMAIN res => res.answer = EmptyStr
  /\ "tags" \in DOMAIN res => res.tags = <<>>
  /\ "analysis" \in DOMAIN res => res.analysis = EmptyDict

\* C6, as claimed: when no provider of the chain yields a success, the result
\* is an error whose message is "All AI providers failed" and whose payload is
\* the empty default.
C6_AggregatedFailure ==
  ( /\ pc = "done"
    /\ op \in SingleOps
    /\ Strip(file_content) # <<>>
    /\ \A i \in ProviderCalls : calls[i].outcome # "success" )
  => /\ result.status = "error"
     /\ result.message = "All AI providers failed"
     /\ EmptyPayload(result)

\* C7: a blank document is rejected with status "error": no provider is invoked,
\* no request is sent and no analysis is computed.
C7_BlankRejected ==
  pc = "done" /\ Strip(file_content) = <<>> =>
    /\ result.status = "error"
    /\ calls = <<>>
    /\ http_log = <<>>
    /\ op = "complete" => result.analysis = EmptyDict

\* C7 witness: process_file_complete returned for a whitespace-only document
C7_Witness ==
  /\ pc = "done"
  /\ op = "complete"
  /\ file_content = <<" ">>
  /\ result.status = "error"

C9_MissingQuestionRejected ==
  ( /\ pc = "done"
    /\ op = "query"
    /\ Strip(file_content) # <<>>
    /\ Strip(user_prompt) = <<>> )
  => /\ result.status = "error"
     /\ calls = <<>>

\* the calls of a chain of process_file_complete that returned a success
Succeeded(cap) ==
  {i \in ProviderCalls : calls[i].capability = cap /\ calls[i].outcome = "success"}

AnalysisCalls == {i \in 1..Len(calls) : calls[i].provider = "basic_analysis"}

\* C10: process_file_complete on a document that is not blank returns the
\* bundle with status "success"; each of the three sub-steps is run, and a
\* failed one empties its own field only: summary "", tags [] or analysis {}.
C10_Degrades ==
  pc = "done" /\ op = "complete" /\ Strip(file_content) # <<>> =>
    /\ result.status = "success"
    /\ \E i \in ProviderCalls : calls[i].capability = "summary"
    /\ \E i \in ProviderCalls : calls[i].capability = "tags"
    /\ Cardinality(AnalysisCalls) = 1
    /\ result.summary = IF Succeeded("summary") = {} THEN EmptyStr
                        ELSE calls[CHOOSE i \in Succeeded("summary") : TRUE].returned.summary
    /\ result.tags = IF Succeeded("tags") = {} THEN <<>>
                     ELSE calls[CHOOSE i \in Succeeded("tags") : TRUE].returned.tags
    /\ IF \E i \in AnalysisCalls : calls[i].outcome = "success"
       THEN /\ result.analysis # EmptyDict
            /\ result.analysis.character_count = Len(file_content)
       ELSE result.analysis = EmptyDict

\* C10 witness: the Summarize chain failed, tags and analysis are in the bundle
C10_Witness ==
  /\ pc = "done"
  /\ op = "complete"
  /\ Succeeded("summary") = {}
  /\ result.summary = EmptyStr
  /\ result.tags # <<>>
  /\ result.analysis # EmptyDict

(***************************************************************************)
(* FileQuerySystem (app/ai/query.py): the rule-based answerer.             *)
(***************************************************************************)
\* max_content_length of _create_enhanced_prompt
QueryMaxContent == 2000

\* the sentences _find_achievements and _find_features keep
MaxFound == 3

\* the sentences the other buckets keep, and the sentences of a "what" answer
MaxFoundShort == 2

\* the characters of the document the generic answer quotes
GenericQuote == 300

\* the sentences of a summary answer
SummaryAnswerSentences == 3

\* the enhanced prompt up to the file content
prompt_head ==
  <<"\n","B","a","s","e","d"," ","o","n"," ","t","h","e"," ","f","o","l","l",
    "o","w","i","n","g"," ","f","i","l","e"," ","c","o","n","t","e","n","t",
    ","," ","p","l","e","a","s","e"," ","a","n","s","w","e","r"," ","t","h",
    "e"," ","u","s","e","r","'","s"," ","q","u","e","s","t","i","o","n",".",
    "\n","\n","F","i","l","e"," ","C","o","n","t","e","n","t",":","\n">>

\* the text _generate_answer splits the prompt on
question_marker ==
  <<"U","s","e","r"," ","Q","u","e","s","t","i","o","n",":"," ">>

\* the enhanced prompt after the user's question
prompt_tail ==
  <<"\n","\n","P","l","e","a","s","e"," ","p","r","o","v","i","d","e"," ",
    "a"," ","c","l","e","a","r",","," ","a","c","c","u","r","a","t","e"," ",
    "a","n","s","w","e","r"," ","b","a","s","e","d"," ","o","n","l","y"," ",
    "o","n"," ","t","h","e"," ","i","n","f","o","r","m","a","t","i","o","n",
    " ","i","n"," ","t","h","e"," ","f","i","l","e"," ","c","o","n","t","e",
    "n","t"," ","a","b","o","v","e",".","\n">>

\* the words of a question that select each answer, in the order of the elif chain
summary_words ==
  << <<"s","u","m","m","a","r","y">>,
     <<"s","u","m","m","a","r","i","z","e">> >>

\* questions about achievements
achievement_words ==
  << <<"a","c","h","i","e","v","e","m","e","n","t">>,
     <<"a","c","c","o","m","p","l","i","s","h">>,
     <<"c","o","m","p","l","e","t","e">> >>

\* questions about features
feature_words ==
  << <<"f","e","a","t","u","r","e">>,
     <<"c","a","p","a","b","i","l","i","t","y">>,
     <<"f","u","n","c","t","i","o","n">> >>

\* questions about the status
status_words ==
  << <<"s","t","a","t","u","s">>,
     <<"p","r","o","g","r","e","s","s">>,
     <<"c","u","r","r","e","n","t">> >>

\* questions about next steps
next_words ==
  << <<"n","e","x","t">>,
     <<"f","u","t","u","r","e">>,
     <<"p","l","a","n">> >>

\* questions about the team
team_words ==
  << <<"t","e","a","m">>,
     <<"m","e","m","b","e","r">> >>

\* questions about the budget
budget_words ==
  << <<"b","u","d","g","e","t">>,
     <<"c","o","s","t">>,
     <<"f","i","n","a","n","c","i","a","l">> >>

\* achievement_keywords of _find_achievements
query_achievement_keywords ==
  << <<"a","c","h","i","e","v","e","d">>,
     <<"c","o","m","p","l","e","t","e","d">>,
     <<"i","m","p","l","e","m","e","n","t","e","d">>,
     <<"s","u","c","c","e","s","s","f","u","l","l","y">>,
     <<"d","e","l","i","v","e","r","e","d">>,
     <<"f","i","n","i","s","h","e","d">>,
     <<"a","c","c","o","m","p","l","i","s","h","e","d">>,
     <<"d","e","v","e","l","o","p","e","d">>,
     <<"c","r","e","a","t","e","d">>,
     <<"b","u","i","l","t">> >>

\* feature_keywords of _find_features
query_feature_keywords ==
  << <<"f","e","a","t","u","r","e">>,
     <<"s","y","s","t","e","m">>,
     <<"t","e","c","h","n","o","l","o","g","y">>,
     <<"c","a","p","a","b","i","l","i","t","y">>,
     <<"f","u","n","c","t","i","o","n","a","l","i","t","y">>,
     <<"t","o","o","l">>,
     <<"p","l","a","t","f","o","r","m">>,
     <<"s","o","l","u","t","i","o","n">>,
     <<"s","e","r","v","i","c","e">> >>

\* status_keywords of _find_status
query_status_keywords ==
  << <<"c","u","r","r","e","n","t","l","y">>,
     <<"s","t","a","t","u","s">>,
     <<"p","r","o","g","r","e","s","s">>,
     <<"s","c","h","e","d","u","l","e">>,
     <<"b","u","d","g","e","t">>,
     <<"r","e","a","d","y">>,
     <<"d","e","p","l","o","y","m","e","n","t">>,
     <<"p","r","o","d","u","c","t","i","o","n">> >>

\* next_keywords of _find_next_steps
next_keywords ==
  << <<"n","e","x","t">>,
     <<"f","u","t","u","r","e">>,
     <<"p","l","a","n">>,
     <<"u","p","c","o","m","i","n","g">>,
     <<"w","i","l","l">>,
     <<"g","o","i","n","g"," ","t","o">>,
     <<"i","n","t","e","n","d"," ","t","o">> >>

\* team_keywords of _find_team_info
team_keywords ==
  << <<"t","e","a","m">>,
     <<"m","e","m","b","e","r">>,
     <<"d","e","v","e","l","o","p","e","r">>,
     <<"s","t","a","f","f">>,
     <<"p","e","r","s","o","n","n","e","l">>,
     <<"c","o","l","l","a","b","o","r","a","t","o","r">> >>

\* budget_keywords of _find_budget_info
budget_keywords ==
  << <<"b","u","d","g","e","t">>,
     <<"c","o","s","t">>,
     <<"f","i","n","a","n","c","i","a","l">>,
     <<"m","o","n","e","y">>,
     <<"e","x","p","e","n","s","e">>,
     <<"r","e","v","e","n","u","e">>,
     <<"f","u","n","d","i","n","g">> >>

\* the words of _generate_generic_response
kw_when == <<"w","h","e","n">>

kw_where == <<"w","h","e","r","e">>

\* FileQuerySystem._create_enhanced_prompt(file_content, user_prompt)
create_enhanced_prompt(content, question) ==
  LET shown == IF Len(content) > QueryMaxContent
               THEN Take(content, QueryMaxContent) \o <<".", ".", ".">>
               ELSE content
  IN prompt_head \o shown \o <<"\n", "\n">> \o question_marker \o question \o prompt_tail

\* FileQuerySystem._generate_summary_response(content)
generate_summary_response(content) ==
  LET sentences == SplitOn(content, <<".", " ">>)
  IN IF Len(sentences) >= SummaryAnswerSentences
     THEN [lit |-> "Here's a summary of the document: ",
           chars |-> Join(Take(sentences, SummaryAnswerSentences), <<".", " ">>) \o <<".">>]
     ELSE [lit |-> "Here's the document content: ", chars |-> content]

\* mutant: a bucket answers with what it found, whether it found anything or not
FoundIn_joined(content, keywords, n, found, none) ==
  LET sentences == SplitOn(content, <<".", " ">>)
      hits == SelectSeq(sentences, LAMBDA s : ContainsAny(Lower(s), keywords))
      kept == [i \in 1..Len(hits) |-> Strip(hits[i])]
  IN [lit |-> IF kept # <<>> THEN found ELSE "", chars |-> Join(Take(kept, n), <<" ">>)]

\* the body the seven _find_ methods share: the stripped sentences of content
\* that hold one of keywords, the first n of them after the words found, or
\* the sentence none when no sentence holds a keyword
FoundIn(content, keywords, n, found, none) ==
  LET sentences == SplitOn(content, <<".", " ">>)
      hits == SelectSeq(sentences, LAMBDA s : ContainsAny(Lower(s), keywords))
      kept == [i \in 1..Len(hits) |-> Strip(hits[i])]
  IN IF kept # <<>>
     THEN [lit |-> found, chars |-> Join(Take(kept, n), <<" ">>)]
     ELSE Lit(none)

no_achievements == "No specific achievements are mentioned in this document."

no_features == "No specific features or capabilities are mentioned in this document."

no_status == "No specific status information is mentioned in this document."

no_next_steps == "No specific next steps or future plans are mentioned in this document."

no_team_info == "No specific team information is mentioned in this document."

no_budget_info == "No specific budget or financial information is mentioned in this document."

\* FileQuerySystem._find_achievements(content)
find_achievements(content) ==
  FoundIn(content, query_achievement_keywords, MaxFound,
          "Key achievements mentioned in the document: ", no_achievements)

\* FileQuerySystem._find_features(content)
find_features(content) ==
  FoundIn(content, query_feature_keywords, MaxFound,
          "Key features and capabilities mentioned: ", no_features)

\* FileQuerySystem._find_status(content)
find_status(content) ==
  FoundIn(content, query_status_keywords, MaxFoundShort,
          "Current status information: ", no_status)

\* FileQuerySystem._find_next_steps(content)
find_next_steps(content) ==
  FoundIn(content, next_keywords, MaxFoundShort,
          "Next steps and future plans: ", no_next_steps)

\* FileQuerySystem._find_team_info(content)
find_team_info(content) ==
  FoundIn(content, team_keywords, MaxFoundShort, "Team information: ", no_team_info)

\* FileQuerySystem._find_budget_info(content)
find_budget_info(content) ==
  FoundIn(content, budget_keywords, MaxFoundShort,
          "Budget and financial information: ", no_budget_info)

\* s.startswith(prefix)
StartsWith(s, prefix) == Len(s) >= Len(prefix) /\ SubSeq(s, 1, Len(prefix)) = prefix

\* mutant: the generic answer is chosen by the first word of the question
generate_generic_response_leading(content, question) ==
  IF StartsWith(question, kw_what)
  THEN [lit |-> "Based on the document content: ",
        chars |-> Join(Take(SplitOn(content, <<".", " ">>), MaxFoundShort), <<" ">>)]
  ELSE IF StartsWith(question, kw_how) \/ StartsWith(question, kw_when)
          \/ StartsWith(question, kw_where)
  THEN Lit("The document describes various processes and implementations. For specific details, please ask a more specific question about what aspect you're interested in.")
  ELSE [lit |-> "I found information in the document that might be relevant to your question. Here are the key points: ",
        chars |-> Take(content, GenericQuote) \o <<".", ".", ".">>]

\* FileQuerySystem._generate_generic_response(content, question)
generate_generic_response(content, question) ==
  IF Contains(question, kw_what)
  THEN [lit |-> "Based on the document content: ",
        chars |-> Join(Take(SplitOn(content, <<".", " ">>), MaxFoundShort), <<" ">>)]
  ELSE IF Contains(question, kw_how)
  THEN Lit("The document describes various processes and implementations. For specific details, please ask a more specific question about what aspect you're interested in.")
  ELSE IF Contains(question, kw_when)
  THEN Lit("The document doesn't contain specific timeline information. Please ask about specific aspects of the project or content.")
  ELSE IF Contains(question, kw_where)
  THEN Lit("This appears to be a project document. For location-specific information, please ask about specific aspects of the project.")
  ELSE [lit |-> "I found information in the document that might be relevant to your question. Here are the key points: ",
        chars |-> Take(content, GenericQuote) \o <<".", ".", ".">>]

\* user_question of _generate_answer: what follows the last "User Question: "
\* of the prompt, stripped and in lower case
user_question_of(prompt) ==
  LET pieces == SplitOn(prompt, question_marker)
  IN Lower(Strip(pieces[Len(pieces)]))

\* the branch of _generate_answer a question takes
answer_branch(user_question) ==
  IF ContainsAny(user_question, summary_words) THEN "summary"
  ELSE IF ContainsAny(user_question, achievement_words) THEN "achievements"
  ELSE IF ContainsAny(user_question, feature_words) THEN "features"
  ELSE IF ContainsAny(user_question, status_words) THEN "status"
  ELSE IF ContainsAny(user_question, next_words) THEN "next_steps"
  ELSE IF ContainsAny(user_question, team_words) THEN "team_info"
  ELSE IF ContainsAny(user_question, budget_words) THEN "budget_info"
  ELSE "generic"

\* FileQuerySystem._generate_answer(prompt, file_content)
generate_answer(prompt, content) ==
  LET user_question == user_question_of(prompt)
      branch == answer_branch(user_question)
  IN CASE branch = "summary" -> generate_summary_response(content)
       [] branch = "achievements" -> find_achievements(content)
       [] branch = "features" -> find_features(content)
       [] branch = "status" -> find_status(content)
       [] branch = "next_steps" -> find_next_steps(content)
       [] branch = "team_info" -> find_team_info(content)
       [] branch = "budget_info" -> find_budget_info(content)
       [] OTHER -> generate_generic_response(content, user_question)

(***************************************************************************)
(* The rule-based engine called directly: a caller holding the             *)
(* AITaggingSystem singleton, the EnhancedAIProcessor or the               *)
(* FileQuerySystem calls one of their rule-based methods on a text, and    *)
(* calls it again on the same text.  calls holds what each call returned.  *)
(***************************************************************************)
MaxSentences == 3

MaxWords == 2

MaxRepeats == 2

\* n times the character c
Rep(c, n) == [i \in 1..n |-> c]

\* the sentences the documents of the summarizer are made of: two with an
\* achievement keyword, one with a status keyword, one with no keyword
SummarySentences ==
  { achievement_keywords[1] \o <<" ">> \o Rep("a", 121),
    achievement_keywords[2] \o <<" ">> \o Rep("b", 120),
    status_keywords[1] \o <<" ">> \o Rep("c", 30),
    Rep("d", 40) }

\* the documents of sentences: each sentence followed by ".", joined by " "
SentenceDocs ==
  { Join([i \in 1..Len(q) |-> q[i] \o <<".">>], <<" ">>) :
      q \in SeqsUpTo(SummarySentences, MaxSentences) }

\* a document of eight sentences: a title, three achievements, a feature, an
\* objective, a status and a plain sentence
AllBucketsText ==
  <<"P","r","o","j","e","c","t"," ","o","v","e","r","v","i","e","w"," ",
    "h","e","r","e","."," ","W","e"," ","a","c","h","i","e","v","e","d",
    " ","t","h","e"," ","f","i","r","s","t"," ","p","a","r","t","."," ",
    "W","e"," ","c","o","m","p","l","e","t","e","d"," ","t","h","e"," ",
    "s","e","c","o","n","d"," ","p","a","r","t","."," ","W","e"," ","f",
    "i","n","i","s","h","e","d"," ","a"," ","t","h","i","r","d"," ","p",
    "a","r","t","."," ","T","h","e"," ","p","l","a","t","f","o","r","m",
    " ","r","u","n","s"," ","w","e","l","l","."," ","T","h","e"," ","m",
    "a","i","n"," ","a","i","m"," ","i","s"," ","s","p","e","e","d",".",
    " ","I","t"," ","i","s"," ","c","u","r","r","e","n","t","l","y"," ",
    "r","e","a","d","y","."," ","P","l","a","i","n"," ","f","i","l","l",
    "e","r"," ","w","o","r","d","s">>

\* a single sentence longer than any cap, a short text between whitespace,
\* three sentences the first of which is 299 characters long, and the
\* document with a sentence for every bucket
SampleSummaryTexts ==
  { Rep("e", 305) \o <<".">>, <<" ">> \o Rep("f", 98) \o <<"\n">>,
    achievement_keywords[1] \o <<" ">> \o Rep("a", 290) \o <<".", " ">>
      \o status_keywords[1] \o <<" ">> \o Rep("c", 30) \o <<".", " ">>
      \o Rep("d", 40) \o <<".">>,
    AllBucketsText }

\* the texts given to generate_summary
SummaryTexts == SentenceDocs \cup Docs \cup SampleSummaryTexts

\* the words the texts of the tagger and of the classifier are made of
TagWords ==
  { kw_finance_extra[1], kw_work_extra[1], category_keywords[3].keywords[5],
    <<"C","o","d","e">>, <<"s","t","u","d","y">>, <<"c","o","m","p","a","n","y">> }

\* the scenario "SmartCloud invoice report love. Short.", a text of six words,
\* and four texts with the words of the later content types
SampleTagTexts ==
  { <<"S","m","a","r","t","C","l","o","u","d"," ">> \o kw_finance_extra[1] \o <<" ">>
      \o kw_work_extra[1] \o <<" ">> \o category_keywords[3].keywords[5]
      \o <<"."," ","S","h","o","r","t",".">>,
    <<"C","o","d","e"," ">> \o <<"s","t","u","d","y"," ">> \o kw_work_extra[1] \o <<" ">>
      \o category_keywords[3].keywords[5] \o <<" ">> \o kw_finance_extra[1]
      \o <<" ","c","o","m","p","a","n","y">>,
    communication_words[1],
    communication_words[1] \o <<" ">> \o technical_words[3],
    communication_words[2] \o <<" ">> \o legal_words[1],
    communication_words[1] \o <<" ">> \o legal_words[3] \o <<" ">> \o meeting_words[2] }

\* the texts given to generate_tags, _detect_content_type and _extract_key_topics
TagTexts ==
  {Join(q, <<" ">>) : q \in SeqsUpTo(TagWords, MaxWords)} \cup SampleTagTexts \cup Docs

\* the sentences the documents of the answerer are made of: one with an
\* achievement and a feature keyword, one with a status, a team, a next-step
\* and a budget keyword, one with no keyword
AnswerSentences ==
  { <<"W","e"," ">> \o query_achievement_keywords[10] \o <<" ","t","h","e"," ">>
      \o query_feature_keywords[2],
    query_status_keywords[2] \o <<":"," ">> \o team_keywords[1] \o <<" ">>
      \o next_keywords[5] \o <<" ">> \o budget_keywords[2],
    <<"N","o","t","e">> }

\* the documents given to the answerer: sentences joined by ". ", the sample
\* documents, and one longer than the prompt shows (asked one question)
AnswerDocs ==
  { Join(q, <<".", " ">>) : q \in SeqsUpTo(AnswerSentences, MaxSentences) }
    \cup SampleDocs \cup { Rep("z", QueryMaxContent + 1) }

\* the questions: none, one for each branch of _generate_answer and of
\* _generate_generic_response, one with no known word, three with the words
\* of two rules or with a word that is not the first, and one that holds the
\* marker "User Question: " itself
Questions ==
  { <<>>,
    <<"S","u","m","m","a","r","i","z","e"," ","t","h","i","s">>,
    achievement_words[3], feature_words[1], status_words[1], next_words[3],
    team_words[2], budget_words[2],
    kw_what, kw_how, kw_when, kw_where,
    <<"W","h","y","?">>,
    budget_words[1] \o <<" ">> \o status_words[1],
    <<"S","a","y"," ">> \o kw_what,
    <<"A","n","y">> \o kw_how \o <<" ">> \o kw_where,
    kw_summary \o <<" ">> \o question_marker \o team_words[1] }

\* the entries of category_keywords under the keys the dict holds, in their order
TableOf(keys) ==
  [i \in 1..Len(keys) |->
     category_keywords[CHOOSE j \in 1..Len(category_keywords) :
                         category_keywords[j].category = keys[i]]]

\* mutant: generate_tags pops every category it has matched
KeysAfterTags_popped(keys, tags) ==
  SelectSeq(keys, LAMBDA k : \A i \in 1..Len(tags) : tags[i] # Lit(k))

\* the keys of self.category_keywords after generate_tags: the loop only reads
KeysAfterTags(keys, tags) == keys

RuleFunctions ==
  {"generate_summary", "generate_tags", "detect_content_type", "extract_key_topics",
   "generate_answer"}

RuleInit ==
  /\ op \in RuleFunctions
  /\ file_content \in IF op = "generate_summary" THEN SummaryTexts
                     ELSE IF op = "generate_answer" THEN AnswerDocs
                     ELSE TagTexts
  /\ user_prompt \in IF op # "generate_answer" THEN {<<>>}
                    ELSE IF Len(file_content) > QueryMaxContent THEN {kw_what}
                    ELSE Questions
  /\ pc = "idle"
  /\ calls = <<>>
  /\ result = NoResult
  /\ category_keys = InitialKeys
  /\ openai_key = FALSE
  /\ hf_key = FALSE
  /\ capability = "none"
  /\ idx = 1
  /\ http_log = <<>>
  /\ summary_result = NoResult
  /\ tags_result = NoResult
  /\ StorageInit
  /\ LoaderInit

\* the caller receives what the method returned
RuleReturns(returned) ==
  /\ calls' = Append(calls, [function |-> op, returned |-> returned])
  /\ result' = returned
  /\ pc' = "done"
  /\ UNCHANGED <<storage_vars, loader_vars>>
  /\ UNCHANGED <<op, file_content, user_prompt, openai_key, hf_key, capability, idx,
                 http_log, summary_result, tags_result>>

\* AITaggingSystem.generate_summary(text)
Summarize ==
  /\ op = "generate_summary"
  /\ Len(calls) < MaxRepeats
  /\ RuleReturns(AITaggingSystem_generate_summary(file_content, FALSE))
  /\ UNCHANGED category_keys

\* AITaggingSystem.generate_tags(text)
Tag ==
  /\ op = "generate_tags"
  /\ Len(calls) < MaxRepeats
  /\ LET tags == TagsFromTable(TableOf(category_keys), file_content, FALSE)
     IN /\ RuleReturns(tags)
        /\ category_keys' = KeysAfterTags(category_keys, tags)

\* EnhancedAIProcessor._detect_content_type(content)
Classify ==
  /\ op = "detect_content_type"
  /\ Len(calls) < MaxRepeats
  /\ RuleReturns(detect_content_type(file_content))
  /\ UNCHANGED category_keys

\* EnhancedAIProcessor._extract_key_topics(content)
ExtractTopics ==
  /\ op = "extract_key_topics"
  /\ Len(calls) < MaxRepeats
  /\ RuleReturns(extract_key_topics(file_content))
  /\ UNCHANGED category_keys

\* FileQuerySystem._generate_answer(self._create_enhanced_prompt(text, user_prompt), text)
Answer ==
  /\ op = "generate_answer"
  /\ Len(calls) < MaxRepeats
  /\ RuleReturns(generate_answer(create_enhanced_prompt(file_content, user_prompt),
                                 file_content))
  /\ UNCHANGED category_keys

RuleNext ==
  \/ Summarize
  \/ Tag
  \/ Classify
  \/ ExtractTopics
  \/ Answer

RuleSpec == RuleInit /\ [][RuleNext]_vars

\* the chain ran with no OpenAI key and no Hugging Face key on a document that
\* is not blank, and has returned
NoNetworkedProvider ==
  /\ pc = "done"
  /\ op \in {"summary", "tags"}
  /\ ~openai_key
  /\ ~hf_key
  /\ Strip(file_content) # <<>>

\* C11, as claimed: with no networked provider, generate_summary returns
\* AITaggingSystem.generate_summary(text) and generate_tags returns
\* AITaggingSystem.generate_tags(text): the terminal rule-based provider answers.
C11_RuleEngineAnswers ==
  NoNetworkedProvider =>
    /\ calls[Len(calls)].provider = "fallback"
    /\ op = "summary" =>
         result.summary = Text(AITaggingSystem_generate_summary(file_content, FALSE))
    /\ op = "tags" => result.tags = AITaggingSystem_generate_tags(file_content, FALSE)

\* C11, amended: with no networked provider no request is sent and simple_ai is
\* the first provider called; when its call succeeds it is the one that answers,
\* with its own in-process rules (model "simple-rule-based": the first three
\* ". "-separated sentences, its own category table); the terminal rule-based
\* provider is called only after simple_ai did not succeed.
C11_SimpleRulesAnswer ==
  NoNetworkedProvider =>
    /\ http_log = <<>>
    /\ calls # <<>>
    /\ calls[1].provider = "simple_ai"
    /\ calls[1].outcome = "success" =>
         /\ Len(calls) = 1
         /\ result.model = "simple-rule-based"
         /\ op = "summary" => result = SimpleAIClient_rule_based_summary(file_content, "none")
         /\ op = "tags" => result.tags = SimpleAIClient_categorize_content(file_content)
    /\ Len(calls) > 1 =>
         /\ calls[1].outcome # "success"
         /\ calls[2].provider = "fallback"

\* C11 witness: no key; generate_tags("hr") returned simple_ai's empty list where
\* the rule-based engine finds the category HR
C11_Witness ==
  /\ NoNetworkedProvider
  /\ op = "tags"
  /\ file_content = <<"h", "r">>
  /\ Len(calls) = 1
  /\ result.model = "simple-rule-based"
  /\ result.tags = <<>>
  /\ AITaggingSystem_generate_tags(file_content, FALSE) = <<Lit("HR")>>

(***************************************************************************)
(* Properties of the rule-based summarizer.                                *)
(***************************************************************************)
\* generate_summary has returned
Summarized == pc = "done" /\ op = "generate_summary"

\* C12, as claimed: for every text that is not blank, generate_summary returns a
\* non-empty string of at most 300 characters plus a 3-character ellipsis.
C12_BoundedSummary ==
  Summarized /\ (\E i \in 1..Len(file_content) : file_content[i] \notin Whitespace) =>
    /\ result # <<>>
    /\ Len(result) <= SummaryCap + 3

\* the positions of the text that hold no whitespace
Inked == {i \in 1..Len(file_content) : file_content[i] \notin Whitespace}

\* C13, as claimed: a text shorter than 100 characters, surrounding whitespace
\* included, is returned unchanged, character for character.
C13_ShortTextUnchanged ==
  Summarized /\ Len(file_content) < ShortTextLen => result = file_content

\* C13, amended: generate_summary first drops the whitespace around the text;
\* what is left is returned as it is when it is shorter than 100 characters, and
\* a blank text gives "".
C13_ShortTextStripped ==
  Summarized =>
    /\ Inked = {} => result = <<>>
    /\ Inked # {} /\ SetMax(Inked) - SetMin(Inked) + 1 < ShortTextLen =>
         result = SubSeq(file_content, SetMin(Inked), SetMax(Inked))

\* C13 witness: a text of 100 characters, 98 of them between a space and a
\* newline, came back as the 98
C13_Witness ==
  /\ Summarized
  /\ Len(file_content) = ShortTextLen
  /\ file_content[1] = " "
  /\ file_content[Len(file_content)] = "\n"
  /\ Len(result) = 98
  /\ result = SubSeq(file_content, 2, 99)

\* the usable sentences of the text that match a keyword set
SentencesWith(keywords) == Matching(UsableSentences(Strip(file_content)), keywords)

\* the case of C14: at least three usable sentences, one of them matching the
\* achievement keywords and one the status keywords
BucketsCase ==
  /\ Summarized
  /\ Len(UsableSentences(Strip(file_content))) >= 3
  /\ SentencesWith(achievement_keywords) # <<>>
  /\ SentencesWith(status_keywords) # <<>>

\* the sentences the buckets select, joined with ". " and ended by a period, are
\* no longer than the cap
SelectionFits ==
  Len(Join(SelectSentences(UsableSentences(Strip(file_content))), <<".", " ">>)) + 1
    <= SummaryCap

\* C14, as claimed: the summary of such a document contains at least one
\* achievement sentence and the status sentence, and is at most 300 long.
C14_AchievementAndStatus ==
  BucketsCase =>
    /\ \E i \in 1..Len(SentencesWith(achievement_keywords)) :
         Contains(result, SentencesWith(achievement_keywords)[i])
    /\ \E i \in 1..Len(SentencesWith(status_keywords)) :
         Contains(result, SentencesWith(status_keywords)[i])
    /\ Len(result) <= SummaryCap

\* C14, amended: the summary of such a document is at most 300 long; it
\* contains the first achievement sentence and the first status sentence
\* whenever the selected sentences joined fit in 300 characters.
C14_BucketsWithinCap ==
  Summarized =>
    LET usable == UsableSentences(Strip(file_content))
        achievements == Matching(usable, achievement_keywords)
        status == Matching(usable, status_keywords)
        selected == Join(SelectSentences(usable), <<".", " ">>)
    IN (Len(usable) >= 3 /\ achievements # <<>> /\ status # <<>>) =>
         /\ Len(result) <= SummaryCap
         /\ Len(selected) + 1 <= SummaryCap =>
              /\ Contains(result, achievements[1])
              /\ Contains(result, status[1])

\* C14 witness: a document of more than 100 characters whose summary is built
\* from the buckets and holds its achievement sentence and its status sentence
C14_Witness ==
  /\ BucketsCase
  /\ SelectionFits
  /\ Len(Strip(file_content)) >= ShortTextLen
  /\ Len(result) < Len(Strip(file_content))
  /\ Contains(result, SentencesWith(achievement_keywords)[1])
  /\ Contains(result, SentencesWith(status_keywords)[1])

(***************************************************************************)
(* Properties of the rule-based tagger.                                    *)
(***************************************************************************)
\* generate_tags has returned
Tagged == pc = "done" /\ op = "generate_tags"

\* the categories of the table in which the tag stands
TablePositions(tag) ==
  {j \in 1..Len(category_keywords) : Lit(category_keywords[j].category) = tag}

\* C15: generate_tags returns at most 5 tags, no category twice, each one a
\* category of the table with a keyword occurring in the lower-cased text, in
\* the order of the table.
C15_TagsWellFormed ==
  Tagged =>
    /\ Len(result) <= MaxTags
    /\ \A i, k \in 1..Len(result) : i # k => result[i] # result[k]
    /\ \A i \in 1..Len(result) :
         \E j \in TablePositions(result[i]) :
           ContainsAny(Lower(file_content), category_keywords[j].keywords)
    /\ \A i, k \in 1..Len(result) :
         i < k => \A j \in TablePositions(result[i]), l \in TablePositions(result[k]) : j < l

\* C15 witness: a text with keywords of seven categories got the first five
C15_Witness ==
  /\ Tagged
  /\ Cardinality({j \in 1..Len(category_keywords) :
                    ContainsAny(Lower(file_content), category_keywords[j].keywords)}) = 7
  /\ Len(result) = MaxTags
  /\ result[MaxTags] = Lit("Business")

\* C16: a text with the words "invoice", "report" and "love" is tagged Finance,
\* Work and Personal, whatever else it contains; the cap removes none of them.
C16_ScenarioTags ==
  ( /\ Tagged
    /\ Contains(Lower(file_content), kw_finance_extra[1])
    /\ Contains(Lower(file_content), kw_work_extra[1])
    /\ Contains(Lower(file_content), category_keywords[3].keywords[5]) )
  => \A tag \in {"Finance", "Work", "Personal"} :
       \E i \in 1..Len(result) : result[i] = Lit(tag)

\* C16 witness: the tags of "SmartCloud invoice report love. Short."
C16_Witness ==
  /\ Tagged
  /\ Len(file_content) = 38
  /\ SubSeq(file_content, 1, 10) = <<"S","m","a","r","t","C","l","o","u","d">>
  /\ result = <<Lit("Finance"), Lit("Work"), Lit("Personal"), Lit("Creative")>>

(***************************************************************************)
(* The requests of the remote-capable clients: for one document, the       *)
(* OpenAI client and then the Hugging Face client are asked for the same   *)
(* capability; each builds its request and sends it when its key is set.   *)
(* http_log holds the text each request carries.                           *)
(***************************************************************************)
MaxExcess == 2

\* AIConfig.max_content_length
MaxContentLength == 4000

\* file_content[:1000] in the Hugging Face requests
HFInputCap == 1000

\* the content of the user message OpenAIClient sends: a fixed frame around the
\* document and, for a question, the user's prompt
OpenAIClient_user_message(cap, content, prompt) ==
  CASE cap = "summary" ->
         [lit |-> "Please provide a comprehensive summary of the following document:",
          chars |-> content]
    [] cap = "tags" ->
         [lit |-> "Analyze this document and provide 3-5 relevant tags:", chars |-> content]
    [] OTHER -> [lit |-> "Document Content: User Question:", chars |-> content \o prompt]

\* "inputs" (summary) or "context" (question) of the request SimpleAIClient sends
SimpleAIClient_api_inputs(content) == Text(Take(content, HFInputCap))

\* the lengths of the documents: around the two caps
RequestDocLens ==
  {1, HFInputCap, HFInputCap + 1, MaxContentLength}
    \cup {MaxContentLength + k : k \in 1..MaxExcess}

RequestInit ==
  /\ capability \in {"summary", "tags", "query"}
  /\ op = capability
  /\ file_content \in {Rep("x", n) : n \in RequestDocLens}
  /\ user_prompt \in {<<>>, <<"W","h","a","t","?">>}
  /\ openai_key \in BOOLEAN
  /\ hf_key \in BOOLEAN
  /\ pc = "loop"
  /\ idx = 1
  /\ calls = <<>>
  /\ http_log = <<>>
  /\ result = NoResult
  /\ summary_result = NoResult
  /\ tags_result = NoResult
  /\ category_keys = InitialKeys
  /\ StorageInit
  /\ LoaderInit

\* OpenAIClient.generate_summary / generate_tags / query_file_content up to the
\* call of _make_api_call
OpenAISubmit ==
  /\ pc = "loop"
  /\ provider_priority[idx] = "openai"
  /\ http_log' = IF OpenAIClient_is_available(openai_key)
                 THEN Append(http_log,
                             [api |-> "openai", capability |-> capability,
                              submitted |-> OpenAIClient_user_message(capability, file_content,
                                                                      user_prompt)])
                 ELSE http_log
  /\ idx' = idx + 1
  /\ UNCHANGED <<storage_vars, loader_vars, category_keys, openai_key, hf_key, pc, op, file_content, user_prompt,
                 capability, calls, summary_result, tags_result, result>>

\* SimpleAIClient.generate_summary / query_file_content up to requests.post;
\* generate_tags sends nothing
HuggingFaceSubmit ==
  /\ pc = "loop"
  /\ provider_priority[idx] = "simple_ai"
  /\ http_log' = IF SimpleAIClient_calls_api(hf_key, capability, "none")
                 THEN Append(http_log,
                             [api |-> "huggingface", capability |-> capability,
                              submitted |-> SimpleAIClient_api_inputs(file_content)])
                 ELSE http_log
  /\ idx' = idx + 1
  /\ pc' = "done"
  /\ UNCHANGED <<storage_vars, loader_vars, category_keys, openai_key, hf_key, op, file_content, user_prompt,
                 capability, calls, summary_result, tags_result, result>>

RequestNext ==
  \/ OpenAISubmit
  \/ HuggingFaceSubmit

RequestSpec == RequestInit /\ [][RequestNext]_vars

(***************************************************************************)
(* Properties of what the orchestrator hands to and takes from a remote    *)
(* provider.                                                               *)
(***************************************************************************)
\* C17, as claimed: the tag list generate_tags returns has at most 5 entries and
\* no entry twice, whichever provider produced it.
C17_TagsCapped ==
  pc = "done" /\ op = "tags" /\ result.status = "success" =>
    /\ Len(result.tags) <= MaxTags
    /\ \A i, k \in 1..Len(result.tags) : i # k => result.tags[i] # result.tags[k]

\* C18, as claimed: the text a request to a remote provider carries is at most
\* max_content_length (4000) characters of the document, whatever its length.
C18_SubmittedCapped ==
  \A k \in 1..Len(http_log) :
    "submitted" \in DOMAIN http_log[k] =>
      Len(http_log[k].submitted.chars) <= MaxContentLength


Answered == op = "generate_answer" /\ pc = "done"

\* the buckets of _generate_answer: the branch, the keywords its method looks
\* for, and the sentence it returns when no sentence holds one
Buckets ==
  << [branch |-> "achievements", keywords |-> query_achievement_keywords, none |-> no_achievements],
     [branch |-> "features", keywords |-> query_feature_keywords, none |-> no_features],
     [branch |-> "status", keywords |-> query_status_keywords, none |-> no_status],
     [branch |-> "next_steps", keywords |-> next_keywords, none |-> no_next_steps],
     [branch |-> "team_info", keywords |-> team_keywords, none |-> no_team_info],
     [branch |-> "budget_info", keywords |-> budget_keywords, none |-> no_budget_info] >>

\* the branch the question of this run takes
AskedBranch ==
  answer_branch(user_question_of(create_enhanced_prompt(file_content, user_prompt)))

\* no sentence of the document holds one of keywords
NothingFound(keywords) ==
  LET sentences == SplitOn(file_content, <<".", " ">>)
  IN \A i \in 1..Len(sentences) : ~ContainsAny(Lower(sentences[i]), keywords)

\* C20: for every document that is not empty and every question, the answer
\* of _generate_answer is not the empty string; a bucket with no matching
\* sentence answers with its fixed "not mentioned" sentence.
C20_AnswerNeverEmpty ==
  (Answered /\ file_content # <<>>) =>
    LET asked == AskedBranch
    IN /\ result.lit # "" \/ result.chars # <<>>
       /\ \A b \in 1..Len(Buckets) :
            (asked = Buckets[b].branch /\ NothingFound(Buckets[b].keywords))
              => result = Lit(Buckets[b].none)

\* a question about the team on a document that does not mention one was
\* answered with the fixed sentence
C20_Witness ==
  /\ Answered
  /\ file_content # <<>>
  /\ AskedBranch = "team_info"
  /\ NothingFound(team_keywords)
  /\ result = Lit(no_team_info)


(***************************************************************************)
(* Properties of the answerer's dispatch (RuleSpec).                       *)
(***************************************************************************)
\* the answer of the rule named branch
HandledBy(branch, content, question) ==
  CASE branch = "summary" -> generate_summary_response(content)
    [] branch = "achievements" -> find_achievements(content)
    [] branch = "features" -> find_features(content)
    [] branch = "status" -> find_status(content)
    [] branch = "next_steps" -> find_next_steps(content)
    [] branch = "team_info" -> find_team_info(content)
    [] branch = "budget_info" -> find_budget_info(content)
    [] OTHER -> generate_generic_response(content, question)

\* C21, as claimed: the answer is that of the earliest rule, in the order
\* summary, achievement, feature, status, next/plan, team, budget, generic,
\* one of whose words occurs in the lower-cased question of the user; the
\* choice depends on the user's question only.
C21_FirstMatchWins ==
  Answered =>
    result = HandledBy(answer_branch(Lower(user_prompt)), file_content,
                       Lower(user_prompt))

\* the question _generate_answer extracts from the prompt
AskedQuestion == user_question_of(create_enhanced_prompt(file_content, user_prompt))

\* the three fixed answers of the generic handling
CannedAnswers ==
  [how |-> Lit("The document describes various processes and implementations. For specific details, please ask a more specific question about what aspect you're interested in."),
   when |-> Lit("The document doesn't contain specific timeline information. Please ask about specific aspects of the project or content."),
   where |-> Lit("This appears to be a project document. For location-specific information, please ask about specific aspects of the project.")]

\* the generic answer that starts with the first two sentences of the document
FirstTwoSentences ==
  [lit |-> "Based on the document content: ",
   chars |-> Join(Take(SplitOn(file_content, <<".", " ">>), MaxFoundShort), <<" ">>)]

\* the generic answer that quotes the first 300 characters of the document
QuotedStart ==
  [lit |-> "I found information in the document that might be relevant to your question. Here are the key points: ",
   chars |-> Take(file_content, GenericQuote) \o <<".", ".", ".">>]

\* C29, as claimed: when no keyword rule matches, a question starting with
\* "what" gets the first 2 sentences, one starting with "how", "when" or
\* "where" a canned string, any other question the first 300 characters
\* plus an ellipsis.
C29_LeadingWord ==
  (Answered /\ AskedBranch = "generic") =>
    LET q == AskedQuestion
    IN IF StartsWith(q, kw_what) THEN result = FirstTwoSentences
       ELSE IF StartsWith(q, kw_how) \/ StartsWith(q, kw_when) \/ StartsWith(q, kw_where)
       THEN result \in {CannedAnswers.how, CannedAnswers.when, CannedAnswers.where}
       ELSE result = QuotedStart

\* C29, amended: when no keyword rule matches, the generic handling is chosen
\* by the first of the words "what", "how", "when", "where", in that order,
\* that occurs anywhere in the question; a question holding none of them
\* gets the first 300 characters plus an ellipsis.
C29_WordPresence ==
  (Answered /\ AskedBranch = "generic") =>
    LET q == AskedQuestion
    IN /\ Contains(q, kw_what) => result = FirstTwoSentences
       /\ (~Contains(q, kw_what) /\ Contains(q, kw_how)) => result = CannedAnswers.how
       /\ (~Contains(q, kw_what) /\ ~Contains(q, kw_how) /\ Contains(q, kw_when))
            => result = CannedAnswers.when
       /\ (~Contains(q, kw_what) /\ ~Contains(q, kw_how) /\ ~Contains(q, kw_when)
              /\ Contains(q, kw_where)) => result = CannedAnswers.where
       /\ (~Contains(q, kw_what) /\ ~Contains(q, kw_how) /\ ~Contains(q, kw_when)
              /\ ~Contains(q, kw_where)) => result = QuotedStart

\* C29 witness: a question whose first word is not "what" but which holds
\* "what" was answered with the first two sentences of a document of three
C29_Witness ==
  /\ Answered
  /\ AskedBranch = "generic"
  /\ ~StartsWith(AskedQuestion, kw_what)
  /\ Contains(AskedQuestion, kw_what)
  /\ Len(SplitOn(file_content, <<".", " ">>)) = 3
  /\ result = FirstTwoSentences
  /\ result # QuotedStart


(***************************************************************************)
(* Properties of the classifier (RuleSpec).                                *)
(***************************************************************************)
\* _detect_content_type has returned
Classified == op = "detect_content_type" /\ pc = "done"

\* the content types from top to bottom, each with the words that select it
ContentTypes ==
  << [label |-> "Financial Document", words |-> financial_words],
     [label |-> "Report", words |-> report_words],
     [label |-> "Meeting Document", words |-> meeting_words],
     [label |-> "Legal Document", words |-> legal_words],
     [label |-> "Technical Document", words |-> technical_words],
     [label |-> "Communication", words |-> communication_words] >>

\* the content types one of whose words occurs in the lower-cased text
TypesHit ==
  {g \in 1..Len(ContentTypes) : ContainsAny(Lower(file_content), ContentTypes[g].words)}

\* C22: _detect_content_type returns one label, that of the first content
\* type, in the order Financial Document, Report, Meeting Document, Legal
\* Document, Technical Document, Communication, one of whose words occurs in
\* the text, and "General Document" when no word occurs.
C22_FirstTypeWins ==
  Classified =>
    LET hits == TypesHit
    IN result = IF hits = {} THEN "General Document"
                ELSE ContentTypes[SetMin(hits)].label

\* C22 witness: a text with words of three content types was given the
\* earliest of them
C22_Witness ==
  /\ Classified
  /\ {1, 2, 5} \subseteq TypesHit
  /\ result = "Financial Document"


(***************************************************************************)
(* Properties of the summarizer's selection and length limit (RuleSpec).   *)
(***************************************************************************)
\* C27, as claimed: when the selected sentences joined are longer than 300
\* characters and the first of them is 297 characters or longer, so that the
\* loop keeps no sentence, the summary is the first 297 characters of the
\* joined text followed by "...".
C27_HardTruncate ==
  Summarized =>
    LET usable == UsableSentences(Strip(file_content))
        joined == Join(SelectSentences(usable), <<".", " ">>)
        summary == IF EndsWithDot(joined) THEN joined ELSE joined \o <<".">>
    IN (Len(usable) > 2 /\ Len(summary) > SummaryCap
          /\ Len(SplitOn(summary, <<".", " ">>)[1]) >= TruncateLen)
         => result = Take(summary, TruncateLen) \o <<".", ".", ".">>

\* C28: for a document of more than two usable sentences the selected
\* sentences are all different, at most 6, and are, in this order, at most 1
\* title sentence (the first sentence), 2 achievement sentences, 1 feature,
\* 1 objective and 1 status sentence, then a scored sentence only if fewer
\* than 2 were collected.
C28_SelectionShape ==
  Summarized =>
    LET usable == UsableSentences(Strip(file_content))
        sel == SelectSentences(usable)
        InBucket(q, keywords) == ContainsAny(Lower(q), keywords)
    IN Len(usable) > 2 =>
         /\ \A i, j \in 1..Len(sel) : i # j => sel[i] # sel[j]
         /\ Len(sel) <= 6
         /\ \E t \in 0..1, a \in 0..MaxAchievements, f \in 0..1, o \in 0..1,
               st \in 0..1, sc \in 0..1 :
              /\ Len(sel) = t + a + f + o + st + sc
              /\ t = 1 => /\ sel[1] = usable[1]
                          /\ Len(sel[1]) < TitleMaxLen
                          /\ InBucket(sel[1], title_words)
              /\ \A i \in (t + 1)..(t + a) : InBucket(sel[i], achievement_keywords)
              /\ f = 1 => InBucket(sel[t + a + 1], feature_keywords)
              /\ o = 1 => InBucket(sel[t + a + f + 1], info_keywords)
              /\ st = 1 => InBucket(sel[t + a + f + o + 1], status_keywords)
              /\ sc = 1 => /\ t + a + f + o + st < 2
                           /\ Len(sel[Len(sel)]) < BestMaxLen

\* the summary the code returns for AllBucketsText
AllBucketsSummary ==
  <<"P","r","o","j","e","c","t"," ","o","v","e","r","v","i","e","w"," ",
    "h","e","r","e","."," ","W","e"," ","a","c","h","i","e","v","e","d",
    " ","t","h","e"," ","f","i","r","s","t"," ","p","a","r","t","."," ",
    "W","e"," ","c","o","m","p","l","e","t","e","d"," ","t","h","e"," ",
    "s","e","c","o","n","d"," ","p","a","r","t","."," ","T","h","e"," ",
    "p","l","a","t","f","o","r","m"," ","r","u","n","s"," ","w","e","l",
    "l","."," ","T","h","e"," ","m","a","i","n"," ","a","i","m"," ","i",
    "s"," ","s","p","e","e","d","."," ","I","t"," ","i","s"," ","c","u",
    "r","r","e","n","t","l","y"," ","r","e","a","d","y",".">>

\* C28 witness: the document with a sentence for every bucket was summarized
\* from six selected sentences: the title, the first two of its three
\* achievements, the feature, the objective and the status sentence
C28_Witness ==
  /\ Summarized
  /\ file_content = AllBucketsText
  /\ LET usable == UsableSentences(Strip(file_content))
         sel == SelectSentences(usable)
     IN /\ Len(usable) = 8
        /\ sel = <<usable[1], usable[2], usable[3], usable[5], usable[6], usable[7]>>
  /\ result = AllBucketsSummary


(***************************************************************************)
(* Properties of timeouts of the remote calls (Spec).                      *)
(***************************************************************************)
\* the provider that sent the request k of http_log
Requester(k) == IF http_log[k].api = "openai" THEN "openai" ELSE "simple_ai"

\* the calls of the provider that sent request k, in the chain of its capability
CallsOf(k) ==
  {i \in ProviderCalls : /\ calls[i].provider = Requester(k)
                         /\ calls[i].capability = http_log[k].capability}

\* the chain of capability cap has returned to its caller
ChainEnded(cap) ==
  \/ pc \in {"analysis", "done"}
  \/ op = "complete" /\ cap = "summary" /\ capability = "tags"

\* C23, as claimed: the provider whose remote call timed out reports an error
\* result, and the orchestrator goes on to the next provider.
C23_TimeoutIsError ==
  \A k \in 1..Len(http_log) :
    http_log[k].timed_out =>
      \A i \in CallsOf(k) :
        /\ calls[i].outcome = "error"
        /\ ChainEnded(http_log[k].capability) => i < Len(calls)

\* C23, amended: a timeout of the OpenAI request makes the OpenAI provider
\* return an error result, after which simple_ai is the next call of the
\* chain and the chain returns what a later provider answered; a timeout of
\* the Hugging Face request is absorbed by the simple provider, which answers
\* from its own rules (or, if those fail, returns an error and the fallback
\* is called next).  In no case does the timeout end the request.
C23_TimeoutFallsBack ==
  \A k \in 1..Len(http_log) :
    http_log[k].timed_out =>
      LET cap == http_log[k].capability
          mine == CallsOf(k)
      IN /\ Cardinality(mine) = 1
         /\ \A i \in mine :
              /\ calls[i].outcome \in {"success", "error"}
              /\ (calls[i].outcome = "error" /\ i < Len(calls)) =>
                   /\ calls[i + 1].capability = cap
                   /\ Rank(calls[i + 1].provider) = Rank(calls[i].provider) + 1
              /\ (calls[i].outcome = "error" /\ ChainEnded(cap)) => i < Len(calls)
              /\ Requester(k) = "openai" => calls[i].outcome = "error"
              /\ (Requester(k) = "simple_ai" /\ calls[i].outcome = "success") =>
                   calls[i].returned.model = "simple-rule-based"
              /\ \A j \in ProviderCalls :
                   (j >= i /\ calls[j].capability = cap /\ calls[j].outcome = "success"
                      /\ ChainEnded(cap))
                     => ChainResult(cap) = calls[j].returned

\* C23 witness: the OpenAI request for a summary timed out, simple_ai was
\* called next and its answer is the result of the request
C23_Witness ==
  /\ pc = "done"
  /\ op = "summary"
  /\ Len(http_log) >= 1
  /\ http_log[1].api = "openai"
  /\ http_log[1].timed_out
  /\ Len(calls) = 2
  /\ calls[1].provider = "openai"
  /\ calls[1].outcome = "error"
  /\ calls[2].provider = "simple_ai"
  /\ calls[2].outcome = "success"
  /\ result = calls[2].returned
  /\ result.status = "success"

(***************************************************************************)
(* LoaderSpec: the lazily loaded local models of HuggingFaceClient.        *)
(* The request handlers run in the threads of the server's pool and share  *)
(* the one client returned by get_huggingface_client.  The methods hold no *)
(* lock, so the steps of _get_local_summarizer and _get_local_qa_model of  *)
(* different threads interleave: the test of the field, the construction   *)
(* of the pipeline (which loads the model and takes seconds), the store to *)
(* the field and the final read of the field are separate steps.           *)
(***************************************************************************)
\* the calls one thread makes
MaxCalls == 2

\* the field a method fills and the task of the pipeline it constructs
LoaderTask ==
  [local_summarizer |-> "summarization", local_qa_model |-> "question-answering"]

LoaderFields == DOMAIN LoaderTask

\* no AI request is in progress
AIIdle ==
  /\ openai_key = FALSE
  /\ hf_key = FALSE
  /\ pc = "idle"
  /\ op = "none"
  /\ file_content = <<>>
  /\ user_prompt = <<>>
  /\ capability = "none"
  /\ idx = 1
  /\ calls = <<>>
  /\ http_log = <<>>
  /\ summary_result = NoResult
  /\ tags_result = NoResult
  /\ result = NoResult
  /\ category_keys = InitialKeys

LoaderSpecInit ==
  /\ AIIdle
  /\ StorageInit
  /\ local_models = [local_summarizer |-> None, local_qa_model |-> None]
  /\ threads = [t \in Threads |-> [pc |-> "idle", n |-> 0]]
  /\ pipelines = <<>>

\* a thread calls _get_local_summarizer or _get_local_qa_model
GetLocalEnter(t, field) ==
  /\ threads[t].pc \in {"idle", "returned"}
  /\ threads[t].n < MaxCalls
  /\ threads' = [threads EXCEPT ![t] =
                   [pc |-> "test", field |-> field, n |-> threads[t].n + 1]]
  /\ UNCHANGED <<local_models, pipelines, ai_vars, storage_vars>>

\* if self.local_summarizer is None:
GetLocalTest(t) ==
  /\ threads[t].pc = "test"
  /\ threads' = [threads EXCEPT ![t].pc =
                   IF local_models[threads[t].field] = None
                   THEN "construct" ELSE "return"]
  /\ UNCHANGED <<local_models, pipelines, ai_vars, storage_vars>>

\* the body of the try: _import_transformers gave no pipeline function or
\* pipeline(...) raised: the method returns None; otherwise a new pipeline
\* exists, not yet stored
GetLocalConstruct(t) ==
  /\ threads[t].pc = "construct"
  /\ \E loaded \in BOOLEAN :
       IF loaded
       THEN /\ pipelines' = Append(pipelines, LoaderTask[threads[t].field])
            /\ threads' = [threads EXCEPT ![t] =
                 [pc |-> "store", field |-> threads[t].field, n |-> threads[t].n,
                  built |-> <<Len(pipelines) + 1>>]]
       ELSE /\ pipelines' = pipelines
            /\ threads' = [threads EXCEPT ![t] =
                 [pc |-> "returned", field |-> threads[t].field, n |-> threads[t].n,
                  value |-> None]]
  /\ UNCHANGED <<local_models, ai_vars, storage_vars>>

\* self.local_summarizer = <the pipeline constructed>
GetLocalStore(t) ==
  /\ threads[t].pc = "store"
  /\ local_models' = [local_models EXCEPT ![threads[t].field] = threads[t].built]
  /\ threads' = [threads EXCEPT ![t] =
                   [pc |-> "return", field |-> threads[t].field, n |-> threads[t].n]]
  /\ UNCHANGED <<pipelines, ai_vars, storage_vars>>

\* return self.local_summarizer
GetLocalReturn(t) ==
  /\ threads[t].pc = "return"
  /\ threads' = [threads EXCEPT ![t] =
                   [pc |-> "returned", field |-> threads[t].field, n |-> threads[t].n,
                    value |-> local_models[threads[t].field]]]
  /\ UNCHANGED <<local_models, pipelines, ai_vars, storage_vars>>

LoaderNext ==
  \/ \E t \in Threads, field \in LoaderFields : GetLocalEnter(t, field)
  \/ \E t \in Threads : GetLocalTest(t)
  \/ \E t \in Threads : GetLocalConstruct(t)
  \/ \E t \in Threads : GetLocalStore(t)
  \/ \E t \in Threads : GetLocalReturn(t)

LoaderSpec == LoaderSpecInit /\ [][LoaderNext]_vars

(***************************************************************************)
(* Properties of the lazily loaded local models (LoaderSpec).              *)
(***************************************************************************)
\* the pipelines constructed for a field
BuiltFor(field) == {i \in DOMAIN pipelines : pipelines[i] = LoaderTask[field]}

\* the instances the calls in their returned state got from a field's method
InstancesReturned(field) ==
  {threads[t].value : t \in {u \in Threads : /\ threads[u].pc = "returned"
                                             /\ threads[u].field = field}}
    \ {None}

\* C24: in every interleaving of the calls of _get_local_summarizer (or of
\* _get_local_qa_model) the pipeline is constructed at most once, and all the
\* calls that return a model return the same instance.
C24_BuiltOnce ==
  \A field \in LoaderFields :
    /\ Cardinality(BuiltFor(field)) <= 1
    /\ Cardinality(InstancesReturned(field)) <= 1

(***************************************************************************)
(* FileSpec: the file service of app/main.py.  Each request that writes is *)
(* handled in one step; request records the handler's arguments, the       *)
(* locals the properties refer to and the status of the response.  The     *)
(* GET handlers change nothing and are operators on the state.  Users are  *)
(* authenticated (get_current_user), ids come from the table's sequence    *)
(* and are never reused, tokens are fresh (uuid4).                         *)
(***************************************************************************)
\* the uploads and the share links of one run
MaxUploads == 2

MaxShares == 1

Users == {"ann", "bob"}

\* one name: the second upload of a user is an upload of the same name
FileNames == {"notes.txt"}

FileIds == 1..MaxUploads

Tokens == 1..MaxShares

UPLOAD_DIR == "uploaded_files"

\* os.path.join(os.path.join(UPLOAD_DIR, str(user.id)), file.filename)
upload_path(user, filename) == <<UPLOAD_DIR, user, filename>>

\* db.query(FileMeta).filter(FileMeta.id == file_id).first(), as the set of
\* the rows found (ids are unique)
file_by_id(file_id) ==
  {file_metadata[i] : i \in {j \in DOMAIN file_metadata : file_metadata[j].id = file_id}}

\* delete_file's query without the filter on the owner
owned_file_any(file_id, user) == file_by_id(file_id)

\* db.query(FileMeta).filter(FileMeta.id == file_id,
\*                           FileMeta.owner_id == user.id).first()
owned_file(file_id, user) == {f \in file_by_id(file_id) : f.owner_id = user}

\* delete_file without the removal of the links
links_after_delete_kept(file_id) == shared_links

\* shared_links after delete_file has deleted the links of the file
links_after_delete(file_id) ==
  SelectSeq(shared_links, LAMBDA link : link.file_id # file_id)

\* the tokens of the links of a file
tokens_of(file_id) ==
  {shared_links[i].token :
     i \in {j \in DOMAIN shared_links : shared_links[j].file_id = file_id}}

\* process_file_sync: when the text was extracted and analysed, the first
\* row with this path receives the tags and the summary
process_file_sync(rows, file_path, analysed) ==
  LET hits == {i \in DOMAIN rows : rows[i].file_path = file_path}
      first == CHOOSE i \in hits : \A j \in hits : i <= j
  IN  IF analysed /\ hits # {}
      THEN [rows EXCEPT ![first].summary = TRUE]
      ELSE rows

\* GET /files: the ids of the rows of the user
list_user_files(user) ==
  LET mine == SelectSeq(file_metadata, LAMBDA f : f.owner_id = user)
  IN  [i \in DOMAIN mine |-> mine[i].id]

\* GET /share/{token}: the response; expired says whether more than a day has
\* passed since the link was made (link.expires_at < utcnow())
access_shared_file(token, expired) ==
  LET links == {i \in DOMAIN shared_links : shared_links[i].token = token}
      link == shared_links[CHOOSE i \in links : TRUE]
      files == file_by_id(link.file_id)
      file == CHOOSE f \in files : TRUE
  IN  IF links = {}
      THEN [status |-> 404, detail |-> "Link expired or invalid"]
      ELSE IF expired
      THEN [status |-> 404, detail |-> "Link expired or invalid"]
      ELSE IF files = {}
      THEN [status |-> 404, detail |-> "File not found"]
      ELSE IF file.file_path \notin disk
      THEN [status |-> 500, detail |-> "Internal Server Error"]
      ELSE [status |-> 200, path |-> file.file_path]

FileSpecInit ==
  /\ AIIdle
  /\ LoaderInit
  /\ StorageInit

\* POST /upload: the file is written (an existing file of the same path is
\* overwritten), a row is added, and the processing is queued or, when the
\* queue cannot be reached, done at once
Upload(user, filename) ==
  /\ sequences.file < MaxUploads
  /\ \E queued \in BOOLEAN, analysed \in BOOLEAN :
       LET file_path == upload_path(user, filename)
           id == sequences.file + 1
           rows == Append(file_metadata,
                          [id |-> id, file_name |-> filename, file_path |-> file_path,
                           owner_id |-> user, summary |-> FALSE])
       IN  /\ queued => ~analysed
           /\ disk' = disk \cup {file_path}
           /\ file_metadata' = IF queued THEN rows
                               ELSE process_file_sync(rows, file_path, analysed)
           /\ task_queue' = IF queued THEN task_queue \cup {file_path} ELSE task_queue
           /\ sequences' = [sequences EXCEPT !.file = id]
           /\ request' = [endpoint |-> "upload", user |-> user, status |-> 200,
                          path |-> file_path, id |-> id]
  /\ UNCHANGED <<shared_links, ai_vars, loader_vars>>

\* the worker runs process_file_task: a file that is gone gives no text
ProcessFileTask(file_path) ==
  /\ file_path \in task_queue
  /\ task_queue' = task_queue \ {file_path}
  /\ \E analysed \in BOOLEAN :
       /\ analysed => file_path \in disk
       /\ file_metadata' = process_file_sync(file_metadata, file_path, analysed)
  /\ UNCHANGED <<shared_links, disk, sequences, request, ai_vars, loader_vars>>

\* POST /share/{file_id}
CreateShareLink(user, file_id) ==
  LET files == file_by_id(file_id)
      allowed == \E f \in files : f.owner_id = user
      token == sequences.token + 1
  IN  /\ allowed => sequences.token < MaxShares
      /\ IF allowed
         THEN /\ shared_links' = Append(shared_links,
                   [file_id |-> file_id, token |-> token])
              /\ sequences' = [sequences EXCEPT !.token = token]
              /\ request' = [endpoint |-> "share", user |-> user, file_id |-> file_id,
                             status |-> 200, token |-> token]
         ELSE /\ UNCHANGED <<shared_links, sequences>>
              /\ request' = [endpoint |-> "share", status |-> 403]
      /\ UNCHANGED <<file_metadata, disk, task_queue, ai_vars, loader_vars>>

\* DELETE /files/{file_id}: os.remove may raise (the file is in use, the
\* directory is read-only); the handler logs it and answers as if it had not
Delete(user, file_id) ==
  LET found == owned_file(file_id, user)
      file_metadata_row == CHOOSE f \in found : TRUE
      file_path == file_metadata_row.file_path
  IN  /\ IF found = {}
         THEN /\ request' = [endpoint |-> "delete", status |-> 404,
                             others |-> file_by_id(file_id) # {}]
              /\ UNCHANGED <<file_metadata, shared_links, disk>>
         ELSE \E removed \in IF file_path \in disk THEN BOOLEAN ELSE {FALSE} :
              /\ shared_links' = links_after_delete(file_id)
              /\ file_metadata' = SelectSeq(file_metadata,
                                            LAMBDA f : f # file_metadata_row)
              /\ disk' = IF removed THEN disk \ {file_path} ELSE disk
              /\ request' = [endpoint |-> "delete", user |-> user, file_id |-> file_id,
                             status |-> 200, file_path |-> file_path,
                             shared_links |-> tokens_of(file_id),
                             remove_failed |-> (file_path \in disk /\ ~removed)]
      /\ UNCHANGED <<task_queue, sequences, ai_vars, loader_vars>>

FileNext ==
  \/ \E user \in Users, filename \in FileNames : Upload(user, filename)
  \/ \E user \in Users, filename \in FileNames :
       ProcessFileTask(upload_path(user, filename))
  \/ \E user \in Users, file_id \in FileIds : CreateShareLink(user, file_id)
  \/ \E user \in Users, file_id \in FileIds : Delete(user, file_id)

FileSpec == FileSpecInit /\ [][FileNext]_vars

(***************************************************************************)
(* Properties of the deletion of files (FileSpec).                         *)
(***************************************************************************)
\* the last request was a DELETE /files/{file_id} answered with success
DeleteSucceeded == request.endpoint = "delete" /\ request.status = 200

\* what a successful deletion leaves of the rows and the links of the file:
\* no row, no link, no entry in the owner's list, and 404 for every token the
\* file had, whether its day has passed or not
RowAndLinksGone ==
  /\ file_by_id(request.file_id) = {}
  /\ tokens_of(request.file_id) = {}
  /\ \A i \in DOMAIN list_user_files(request.user) :
       list_user_files(request.user)[i] # request.file_id
  /\ \A token \in request.shared_links, expired \in BOOLEAN :
       access_shared_file(token, expired).status = 404

C26_NotFoundNoEffect ==
  [][request'.endpoint = "delete" =>
       \A user \in Users, file_id \in FileIds :
         (/\ ~\E i \in DOMAIN file_metadata : /\ file_metadata[i].id = file_id
                                             /\ file_metadata[i].owner_id = user
          /\ Delete(user, file_id))
         => (/\ request'.status = 404
             /\ UNCHANGED <<file_metadata, shared_links, disk, task_queue>>)]_vars

\* a user has asked to delete the shared file of another user and got 404
C26_Witness ==
  /\ request.endpoint = "delete"
  /\ request.status = 404
  /\ request.others
  /\ file_metadata # <<>>
  /\ shared_links # <<>>

\* C30: after any uploads and deletions every row names a physical file that
\* exists, and no two rows have the same file_path.
C30_RowsHaveFiles ==
  \A i \in DOMAIN file_metadata :
    /\ file_metadata[i].file_path \in disk
    /\ \A j \in DOMAIN file_metadata :
         i # j => file_metadata[i].file_path # file_metadata[j].file_path

====
